---- MODULE Spec2Model ----
(***************************************************************************)
(* Reelify: image + prompt -> video.  A model of the Motion-IR pipeline:   *)
(*   - the orchestrator generateVideo / executeWithRetry / categorizeError *)
(*     (backend/src/pipeline.ts),                                          *)
(*   - the Director (backend/src/director.ts) with the timeline model and  *)
(*     validateMotionIR (schema.ts),                                       *)
(*   - the Coder's keyframe interpolation (backend/src/coder.tsx),         *)
(*   - the renderer's CLI process handling (backend/src/renderer.ts).      *)
(* Times are integers: milliseconds on the orchestrator's and renderer's   *)
(* clocks, tenths of a second on a timeline.                               *)
(***************************************************************************)
EXTENDS Integers, Sequences, FiniteSets, TLC

VARIABLES
  pc,        \* generateVideo: position of the one run
  stage,     \* generateVideo: the stage executeWithRetry is working on
  attempt,   \* executeWithRetry: its attempt parameter
  calls,     \* number of invocations of each stage's operation
  hist,      \* per stage, the outcomes of its attempts, in order
  clock,     \* Date.now(), ms
  slack,     \* ms by which operations and timers have been slow so far
  startTime, \* generateVideo: const startTime
  config,    \* pipelineConfig = {...DEFAULT_CONFIG, ...config}
  input,     \* the arguments and the file system facts the run reads
  schema,    \* the Mapper's result
  motionIR,  \* the Director's result (its validation part)
  outcome,   \* what the caller of generateVideo receives
  dir,       \* the Director submodel
  cod,       \* the Coder submodel
  rnd,       \* the renderer submodel
  runs,      \* the renders that share the temp and output directories
  mpr,       \* the Mapper submodel
  val        \* the Motion-IR validation submodel

vars == <<pc, stage, attempt, calls, hist, clock, slack, startTime, config, input,
          schema, motionIR, outcome, dir, cod, rnd, runs, mpr, val>>

pipeVars == <<pc, stage, attempt, calls, hist, clock, slack, startTime, config, input,
              schema, motionIR, outcome>>

None == "none"
Undefined == [undefined |-> TRUE]   \* an object-valued slot not yet set

subs == <<dir, cod, rnd, runs, mpr, val>>

(***************************************************************************)
(* Strings.  A JavaScript string is a TLA+ string; includes() and          *)
(* toLowerCase() are computed character by character.                      *)
(***************************************************************************)
Upper == "ABCDEFGHIJKLMNOPQRSTUVWXYZ"
Lower == "abcdefghijklmnopqrstuvwxyz"

CharAt(s, i) == SubSeq(s, i, i)

LowerChar(c) ==
  IF \E k \in 1..26 : CharAt(Upper, k) = c
  THEN CharAt(Lower, CHOOSE k \in 1..26 : CharAt(Upper, k) = c)
  ELSE c

\* String.prototype.toLowerCase (ASCII), by halves
RECURSIVE toLowerCase(_)
toLowerCase(s) ==
  IF Len(s) = 0 THEN ""
  ELSE IF Len(s) = 1 THEN LowerChar(s)
  ELSE LET h == Len(s) \div 2
       IN  toLowerCase(SubSeq(s, 1, h)) \o toLowerCase(SubSeq(s, h + 1, Len(s)))

\* String.prototype.includes
includes(s, k) ==
  \E i \in 1..(Len(s) - Len(k) + 1) : SubSeq(s, i, i + Len(k) - 1) = k

\* the white space of /\s/ and of String.prototype.trim
Whitespace == {" ", "\t", "\n"}

\* (mutant) a prompt check that forgets to trim
trimNothing(s) == s

\* String.prototype.trim
trim(s) ==
  LET first == CHOOSE k \in 1..(Len(s) + 1) :
                 /\ k = Len(s) + 1 \/ CharAt(s, k) \notin Whitespace
                 /\ \A m \in 1..(k - 1) : CharAt(s, m) \in Whitespace
      last == CHOOSE k \in 0..Len(s) :
                /\ k = 0 \/ CharAt(s, k) \notin Whitespace
                /\ \A m \in (k + 1)..Len(s) : CharAt(s, m) \in Whitespace
  IN  IF first > last THEN "" ELSE SubSeq(s, first, last)

\* path.basename for a POSIX path
RECURSIVE basename(_)
basename(p) ==
  IF \E i \in 1..Len(p) : CharAt(p, i) = "/"
  THEN basename(SubSeq(p, (CHOOSE i \in 1..Len(p) : CharAt(p, i) = "/") + 1, Len(p)))
  ELSE p

(***************************************************************************)
(* Bounds of the model.                                                    *)
(***************************************************************************)
MaxRetriesTried == 3   \* config.maxRetries ranges over 0..MaxRetriesTried
MaxSlack == 2          \* operations and late timers add at most MaxSlack ms to a run

(***************************************************************************)
(* The orchestrator: backend/src/pipeline.ts                               *)
(***************************************************************************)
Stages == <<"MAPPER", "DIRECTOR", "CODER", "RENDERER">>
StageSet == {Stages[i] : i \in 1..Len(Stages)}

DEFAULT_CONFIG ==
  [enableValidation |-> TRUE, enableFallbacks |-> TRUE, maxRetries |-> 3,
   timeout |-> 300000,
   renderConfig |-> [codec |-> "h264", crf |-> 18, pixelFormat |-> "yuv420p",
                     concurrency |-> 4]]

\* the configurations a caller can pass (merged over DEFAULT_CONFIG)
Configs ==
  [enableValidation : BOOLEAN, enableFallbacks : BOOLEAN,
   maxRetries : 0..MaxRetriesTried, timeout : {DEFAULT_CONFIG.timeout},
   renderConfig : {DEFAULT_CONFIG.renderConfig}]

imagePath == "/data/in.png"

\* the imagePath arguments tried: an omitted one (""), the image, a file that is not there
InputPaths == {"", imagePath, "/data/missing.png"}

\* fs.existsSync when generateVideo checks its arguments
existsSync(p) == p = imagePath

\* the prompt arguments tried: omitted (""), white space only, padded, plain
InputPrompts == {"", " \t\n ", " zoom in ", "make this cinematic, 8 seconds"}
outputPath == "/app/output/output-1.mp4"

\* categorizeError: the first keyword group found in the lower-cased message
categorizeError(message) ==
  LET m == toLowerCase(message) IN
  IF includes(m, "image") \/ includes(m, "mapper") \/ includes(m, "vision")
     \/ includes(m, "schema")
  THEN "image_analysis"
  ELSE IF includes(m, "motion") \/ includes(m, "director")
          \/ includes(m, "timeline") \/ includes(m, "creative")
  THEN "motion_generation"
  ELSE IF includes(m, "composition") \/ includes(m, "coder")
          \/ includes(m, "remotion")
  THEN "composition"
  ELSE IF includes(m, "render") \/ includes(m, "ffmpeg")
          \/ includes(m, "video") \/ includes(m, "cli")
  THEN "rendering"
  ELSE "unknown"

\* the message of the error generateVideo's catch block throws
enhancedErrorMessage(message) ==
  LET category == categorizeError(message)
      base == "Pipeline failed (" \o category \o "): " \o message
  IN  IF category = "image_analysis"
      THEN base \o ". Please check if the image file exists and is valid."
      ELSE IF category = "motion_generation"
      THEN base \o ". Please check your prompt and try again."
      ELSE IF category = "rendering"
      THEN base \o ". This might be a temporary issue with the rendering service."
      ELSE base

\* (mutant) the retry test without the enableFallbacks switch
ShouldRetryIgnoringFallbacks(att, cfg) == att < cfg.maxRetries

\* (mutant) the retry test counting one attempt too many
ShouldRetryOffByOne(att, cfg) == att <= cfg.maxRetries /\ cfg.enableFallbacks

\* the condition under which executeWithRetry retries after a failed attempt
ShouldRetry(att, cfg) == att < cfg.maxRetries /\ cfg.enableFallbacks

\* (mutant) a backoff that does not grow with the attempt
BackoffDelayFlat(att) == 1000

\* the backoff delay before the next attempt, ms
BackoffDelay(att) == 1000 * att

\* Array.prototype.join(', ')
RECURSIVE join(_)
join(errors) ==
  IF Len(errors) = 0 THEN ""
  ELSE IF Len(errors) = 1 THEN errors[1]
  ELSE errors[1] \o ", " \o join(Tail(errors))

(* The shape of a Mapper result, as far as validateSchema looks at it:      *)
(* whether elements.primary, scene.colors and visual_analysis.dominant_colors*)
(* are arrays and whether scene.emotion and composition.focus are truthy.   *)
SchemaShape(primary, emotion, colors, focus, dominant) ==
  [primaryIsArray |-> primary, emotion |-> emotion, colorsIsArray |-> colors,
   focus |-> focus, dominantIsArray |-> dominant]

(* What parseVisualAnalysis / generateEnhancedMockSchema can return: primary *)
(* is always an array, emotion and focus always have a default; colors and  *)
(* dominant_colors are whatever the analysis put there (an array or not),   *)
(* dominant_colors being also the first choice for colors.                  *)
MapperResults ==
  {SchemaShape(TRUE, TRUE, TRUE, TRUE, TRUE),
   SchemaShape(TRUE, TRUE, FALSE, TRUE, TRUE),
   SchemaShape(TRUE, TRUE, FALSE, TRUE, FALSE)}

\* (mutant) validateSchema without the Array.isArray(scene.colors) test
validateSchemaNoColors(sch) ==
  LET e1 == IF ~sch.primaryIsArray
            THEN <<"Missing or invalid primary elements">> ELSE <<>>
      e2 == IF ~sch.emotion
            THEN <<"Missing or invalid scene information">> ELSE <<>>
      e3 == IF ~sch.focus
            THEN <<"Missing or invalid composition information">> ELSE <<>>
      errors == e1 \o e2 \o e3
  IN  [isValid |-> Len(errors) = 0, errors |-> errors]

validateSchema(sch) ==
  LET e1 == IF ~sch.primaryIsArray
            THEN <<"Missing or invalid primary elements">> ELSE <<>>
      e2 == IF ~sch.emotion \/ ~sch.colorsIsArray
            THEN <<"Missing or invalid scene information">> ELSE <<>>
      e3 == IF ~sch.focus
            THEN <<"Missing or invalid composition information">> ELSE <<>>
      e4 == IF ~sch.dominantIsArray
            THEN <<"Missing or invalid visual analysis">> ELSE <<>>
      errors == e1 \o e2 \o e3 \o e4
  IN  [isValid |-> Len(errors) = 0, errors |-> errors]

(* The errors a stage's operation can throw.                                *)
MapperErrors ==
  {"Image file not found: " \o imagePath}   \* the file vanished after the input check
DirectorErrors ==
  {"Cannot read properties of undefined (reading 'length')"}
CoderErrors ==
  {"No code generated",
   "Cannot read properties of undefined (reading 'metadata')"}

\* what renderWithCLI (and renderVideo's own checks) reject or throw with
RenderRawErrors ==
  {"Image file not found: " \o imagePath,
   "Remotion CLI rendering failed with exit code 1. stderr: ",
   "Remotion CLI rendering process error: spawn npx ENOENT",
   "Remotion rendering timed out after 5 minutes",
   "Remotion process succeeded but output file not found: " \o outputPath,
   "Remotion process succeeded but created empty file: " \o outputPath}

\* renderVideo's catch block: the error it rethrows for a raw error message,
\* renderVideo having been given the render configuration cfg
renderVideoCatch(message, cfg) ==
  IF includes(message, "timeout")
  THEN "Remotion rendering timeout after "
         \o ToString(IF "timeout" \in DOMAIN cfg /\ cfg.timeout # 0
                     THEN cfg.timeout ELSE 300000)
         \o "ms: " \o message
  ELSE IF includes(message, "ENOENT")
  THEN "Required file not found during Remotion rendering: " \o message
  ELSE IF includes(message, "empty file")
  THEN "Remotion rendering created empty file: " \o message
  ELSE "Remotion rendering failed: " \o message

RendererErrors ==
  {renderVideoCatch(m, DEFAULT_CONFIG.renderConfig) : m \in RenderRawErrors}

StageErrors(st) ==
  CASE st = "MAPPER" -> MapperErrors
    [] st = "DIRECTOR" -> DirectorErrors
    [] st = "CODER" -> CoderErrors
    [] st = "RENDERER" -> RendererErrors

\* getVideoUrl
getVideoUrl(videoPath) == "/api/videos/" \o basename(videoPath)

Pending ==
  [kind |-> "pending", message |-> None, category |-> None, failedStage |-> None,
   videoPath |-> None, videoUrl |-> None, metadata |-> Undefined,
   motionIR |-> Undefined,
   processingTime |-> -1]

\* every message an error caught by generateVideo's catch block can carry
CaughtMessages ==
  MapperErrors \cup DirectorErrors \cup CoderErrors \cup RendererErrors
  \cup {"Schema validation failed: " \o join(validateSchema(sch).errors) :
          sch \in MapperResults}
  \cup {"Image file not found during rendering: " \o imagePath,
        "Video rendering completed but output file was not created",
        "ENOENT: no such file or directory, stat '" \o outputPath \o "'"}

\* generateVideo's catch block, lines 236-262, tabulated over CaughtMessages
CatchTable ==
  {[raw |-> message,
    category |-> categorizeError(message),
    message |-> enhancedErrorMessage(message)] : message \in CaughtMessages}

CatchBlock(raw) == CHOOSE r \in CatchTable : r.raw = raw

\* (mutant) a catch block that hands out the URL of the video path with the error
ThrownWithUrl(st, message) ==
  [Pending EXCEPT !.kind = "error", !.message = CatchBlock(message).message,
                  !.category = CatchBlock(message).category, !.failedStage = st,
                  !.videoUrl = getVideoUrl(outputPath)]

\* the error leaving generateVideo's catch block
Thrown(st, message) ==
  [Pending EXCEPT !.kind = "error", !.message = CatchBlock(message).message,
                  !.category = CatchBlock(message).category, !.failedStage = st]

\* an error thrown before the try block: it is not categorized
ThrownRaw(message) ==
  [Pending EXCEPT !.kind = "error", !.message = message, !.failedStage = "INPUT"]

NoSub == [on |-> FALSE]

InitPipeline ==
  /\ pc = "check"
  /\ stage = None
  /\ attempt = 0
  /\ calls = [s \in StageSet |-> 0]
  /\ hist = [s \in StageSet |-> <<>>]
  /\ clock = 0
  /\ slack = 0
  /\ startTime = 0
  /\ config \in Configs
  /\ input \in [imagePath : InputPaths, prompt : InputPrompts]
  /\ schema = Undefined
  /\ motionIR = Undefined
  /\ outcome = Pending
  /\ dir = NoSub /\ cod = NoSub /\ rnd = NoSub /\ runs = NoSub
  /\ mpr = NoSub /\ val = NoSub

\* generateVideo, lines 70-103: the input checks and the first executeWithRetry
CheckInputs ==
  /\ pc = "check"
  /\ IF input.imagePath = "" \/ ~existsSync(input.imagePath)
     THEN /\ pc' = "thrown"
          /\ outcome' = ThrownRaw("Invalid image path: " \o
                            (IF input.imagePath = "" THEN "undefined"
                             ELSE input.imagePath))
          /\ UNCHANGED <<stage, attempt>>
     ELSE IF input.prompt = "" \/ Len(trim(input.prompt)) = 0
     THEN /\ pc' = "thrown"
          /\ outcome' = ThrownRaw("Prompt cannot be empty")
          /\ UNCHANGED <<stage, attempt>>
     ELSE /\ pc' = "attempt"
          /\ stage' = "MAPPER"
          /\ attempt' = 1
          /\ UNCHANGED outcome
  /\ startTime' = clock
  /\ UNCHANGED <<calls, hist, clock, slack, config, input, schema, motionIR, subs>>

\* executeWithRetry, line 278: the operation is invoked
StartAttempt ==
  /\ pc = "attempt"
  /\ calls' = [calls EXCEPT ![stage] = @ + 1]
  /\ pc' = "running"
  /\ UNCHANGED <<stage, attempt, hist, clock, slack, startTime, config, input,
                 schema, motionIR, outcome, subs>>

\* time passes while an operation or a backoff timer is awaited
Tick ==
  /\ pc \in {"running", "backoff", "urlgen"}
  /\ slack < MaxSlack
  /\ clock' = clock + 1
  /\ slack' = slack + 1
  /\ UNCHANGED <<pc, stage, attempt, calls, hist, startTime, config, input, schema,
                 motionIR, outcome, subs>>

\* a catch block that records the final failure and goes on to the next stage
OpThrowsAndGoesOn ==
  /\ pc = "running"
  /\ hist' = [hist EXCEPT ![stage] = Append(@, "fail")]
  /\ IF ShouldRetry(attempt, config)
     THEN pc' = "backoff" /\ UNCHANGED <<stage, attempt>>
     ELSE IF stage = "RENDERER"
     THEN pc' = "urlgen" /\ UNCHANGED <<stage, attempt>>
     ELSE /\ pc' = "attempt"
          /\ stage' = Stages[(CHOOSE i \in 1..Len(Stages) : Stages[i] = stage) + 1]
          /\ attempt' = 1
  /\ UNCHANGED <<outcome, calls, clock, slack, startTime, config, input,
                 schema, motionIR, subs>>

\* executeWithRetry's catch block, lines 281-293
OpThrows ==
  /\ pc = "running"
  /\ \E message \in StageErrors(stage) :
       /\ hist' = [hist EXCEPT ![stage] = Append(@, "fail")]
       /\ IF ShouldRetry(attempt, config)
          THEN pc' = "backoff" /\ UNCHANGED outcome
          ELSE pc' = "thrown" /\ outcome' = Thrown(stage, message)
  /\ UNCHANGED <<stage, attempt, calls, clock, slack, startTime, config, input,
                 schema, motionIR, subs>>

\* (mutant) a retry that calls itself with the same attempt number
BackoffElapsesSameAttempt ==
  /\ pc = "backoff"
  /\ clock' = clock + BackoffDelay(attempt)
  /\ pc' = "attempt"
  /\ UNCHANGED <<stage, attempt, calls, hist, slack, startTime, config, input,
                 schema, motionIR, outcome, subs>>

\* lines 287-288: the backoff timer fires and the next attempt starts
BackoffElapses ==
  /\ pc = "backoff"
  /\ clock' = clock + BackoffDelay(attempt)
  /\ attempt' = attempt + 1
  /\ pc' = "attempt"
  /\ UNCHANGED <<stage, calls, hist, slack, startTime, config, input, schema,
                 motionIR, outcome, subs>>

\* lines 98-132: mapper resolved; the schema gate; the Director's executeWithRetry
MapperSucceeds ==
  /\ pc = "running" /\ stage = "MAPPER"
  /\ \E sch \in MapperResults :
       /\ schema' = sch
       /\ IF config.enableValidation /\ ~validateSchema(sch).isValid
          THEN /\ pc' = "thrown"
               /\ outcome' = Thrown("SCHEMA_VALIDATION",
                     "Schema validation failed: " \o join(validateSchema(sch).errors))
               /\ UNCHANGED <<stage, attempt>>
          ELSE /\ pc' = "attempt"
               /\ stage' = "DIRECTOR"
               /\ attempt' = 1
               /\ UNCHANGED outcome
  /\ hist' = [hist EXCEPT !["MAPPER"] = Append(@, "ok")]
  /\ UNCHANGED <<calls, clock, slack, startTime, config, input, motionIR, subs>>

(* lines 127-160: director returned a MotionIR {timeline, validation}; with *)
(* enableValidation an invalid one is logged (logger.warn) and the run goes *)
(* on to the Coder's executeWithRetry.                                      *)
DirectorSucceeds ==
  /\ pc = "running" /\ stage = "DIRECTOR"
  /\ \E valid \in BOOLEAN :
       motionIR' = [validation |-> [isValid |-> valid],
                    metadata |-> [duration |-> 5, width |-> 1920,
                                  height |-> 1080, fps |-> 30]]
  /\ hist' = [hist EXCEPT !["DIRECTOR"] = Append(@, "ok")]
  /\ pc' = "attempt"
  /\ stage' = "CODER"
  /\ attempt' = 1
  /\ UNCHANGED <<calls, clock, slack, startTime, config, input, schema, outcome, subs>>

\* lines 155-184: coder resolved; the image is looked up again; the Renderer starts
CoderSucceeds ==
  /\ pc = "running" /\ stage = "CODER"
  /\ \E imageStillExists \in BOOLEAN :
       IF ~imageStillExists
       THEN /\ pc' = "thrown"
            /\ outcome' = Thrown("PRE_RENDER",
                  "Image file not found during rendering: " \o imagePath)
            /\ UNCHANGED <<stage, attempt>>
       ELSE /\ pc' = "attempt"
            /\ stage' = "RENDERER"
            /\ attempt' = 1
            /\ UNCHANGED outcome
  /\ hist' = [hist EXCEPT !["CODER"] = Append(@, "ok")]
  /\ UNCHANGED <<calls, clock, slack, startTime, config, input, schema, motionIR, subs>>

\* lines 179-203: renderVideo resolved with the output path; the file is looked up
RendererSucceeds ==
  /\ pc = "running" /\ stage = "RENDERER"
  /\ \E videoExists \in BOOLEAN :
       IF ~videoExists
       THEN /\ pc' = "thrown"
            /\ outcome' = Thrown("POST_RENDER",
                  "Video rendering completed but output file was not created")
       ELSE /\ pc' = "urlgen"
            /\ UNCHANGED outcome
  /\ hist' = [hist EXCEPT !["RENDERER"] = Append(@, "ok")]
  /\ UNCHANGED <<stage, attempt, calls, clock, slack, startTime, config, input,
                 schema, motionIR, subs>>

\* lines 203-234: getVideoUrl resolved; fs.statSync; the result bundle is returned
UrlGen ==
  /\ pc = "urlgen"
  /\ \E videoExists \in BOOLEAN :
       IF ~videoExists
       THEN /\ pc' = "thrown"
            /\ outcome' = Thrown("URL_GEN",
                  "ENOENT: no such file or directory, stat '" \o outputPath \o "'")
       ELSE /\ pc' = "returned"
            /\ outcome' =
                 [Pending EXCEPT !.kind = "result",
                                 !.videoPath = outputPath,
                                 !.videoUrl = getVideoUrl(outputPath),
                                 !.metadata = motionIR.metadata,
                                 !.motionIR = motionIR,
                                 !.processingTime = clock - startTime]
  /\ UNCHANGED <<stage, attempt, calls, hist, clock, slack, startTime, config, input,
                 schema, motionIR, subs>>

Next ==
  \/ CheckInputs
  \/ StartAttempt
  \/ Tick
  \/ OpThrows
  \/ BackoffElapses
  \/ MapperSucceeds
  \/ DirectorSucceeds
  \/ CoderSucceeds
  \/ RendererSucceeds
  \/ UrlGen

Spec == InitPipeline /\ [][Next]_vars

\* an invoked stage operation returns or throws
OperationSettles ==
  \/ OpThrows
  \/ MapperSucceeds
  \/ DirectorSucceeds
  \/ CoderSucceeds
  \/ RendererSucceeds

(* the pipeline under the event loop: a pending continuation runs, a due   *)
(* timer fires, and every invoked stage operation settles                  *)
SpecLive ==
  /\ Spec
  /\ WF_vars(CheckInputs)
  /\ WF_vars(StartAttempt)
  /\ WF_vars(OperationSettles)
  /\ WF_vars(BackoffElapses)
  /\ WF_vars(UrlGen)

(***************************************************************************)
(* The timeline model: schema.ts.  On a timeline, times, scales, opacities *)
(* and effect parameters are in tenths (0.5 s is 5, scale 1.2 is 12);      *)
(* positions are in pixels.                                                *)
(***************************************************************************)
Digits == "0123456789"
DigitVal(c) == (CHOOSE d \in 1..10 : CharAt(Digits, d) = c) - 1
DigitChar(d) == CharAt(Digits, d + 1)

\* Date.prototype.toISOString for a time within the first second of the epoch
toISOString(ms) ==
  "1970-01-01T00:00:00." \o DigitChar(ms \div 100) \o DigitChar((ms \div 10) % 10)
     \o DigitChar(ms % 10) \o "Z"

Origin == [x |-> 0, y |-> 0, z |-> 0]

\* (mutant) createBasicTimeline that also stamps the time into projectName
createBasicTimelineStampedName(duration, width, height, fps, now) ==
  [version |-> "1.0",
   metadata |-> [projectName |-> "Motion-IR Generated Video " \o toISOString(now),
                 createdAt |-> toISOString(now),
                 duration |-> 10 * duration,
                 fps |-> fps, width |-> width, height |-> height,
                 backgroundColor |-> "#000000"],
   assets |-> <<>>,
   tracks |-> <<>>,
   camera |-> [type |-> "2D", position |-> Origin, target |-> Origin,
               movements |-> <<>>],
   globalEffects |-> <<>>]

\* createBasicTimeline(duration, width, height, fps), called at time now (ms)
createBasicTimeline(duration, width, height, fps, now) ==
  [version |-> "1.0",
   metadata |-> [projectName |-> "Motion-IR Generated Video",
                 createdAt |-> toISOString(now),
                 duration |-> 10 * duration,
                 fps |-> fps, width |-> width, height |-> height,
                 backgroundColor |-> "#000000"],
   assets |-> <<>>,
   tracks |-> <<>>,
   camera |-> [type |-> "2D", position |-> Origin, target |-> Origin,
               movements |-> <<>>],
   globalEffects |-> <<>>]

\* the <<track, layer>> index pairs (from 1) of a timeline, as flatMap visits them
LayerIndices(timeline) ==
  UNION {{<<t, l>> : l \in 1..Len(timeline.tracks[t].layers)} :
         t \in 1..Len(timeline.tracks)}

\* the <<track, layer, keyframe>> index triples (from 1) of a timeline
KeyframeIndices(timeline) ==
  UNION {{<<tl[1], tl[2], k>> :
            k \in 1..Len(timeline.tracks[tl[1]].layers[tl[2]].keyframes)} :
         tl \in LayerIndices(timeline)}

LexLess(a, b) ==
  \/ a[1] < b[1]
  \/ a[1] = b[1] /\ a[2] < b[2]
  \/ a[1] = b[1] /\ a[2] = b[2] /\ a[3] < b[3]

\* the nested forEach order: by track, then layer, then keyframe
RECURSIVE InVisitOrder(_)
InVisitOrder(S) ==
  IF S = {} THEN <<>>
  ELSE LET first == CHOOSE x \in S : \A y \in S \ {x} : LexLess(x, y)
       IN  <<first>> \o InVisitOrder(S \ {first})

KeyframeError(tlk) ==
  "Keyframe " \o DigitChar(tlk[3] - 1) \o " in layer " \o DigitChar(tlk[2] - 1)
     \o " of track " \o DigitChar(tlk[1] - 1) \o " has invalid time"

validateMotionIRBody(timeline, e2) ==
  LET e1 == IF "assets" \notin DOMAIN timeline \/ Len(timeline.assets) = 0
            THEN <<"Timeline must have at least one asset">> ELSE <<>>
      layerEnds == {timeline.tracks[tl[1]].layers[tl[2]].startTime
                      + timeline.tracks[tl[1]].layers[tl[2]].duration :
                    tl \in LayerIndices(timeline)} \cup {0}
      maxLayerEnd == CHOOSE m \in layerEnds : \A n \in layerEnds : n <= m
      e3 == IF maxLayerEnd > timeline.metadata.duration
            THEN <<"Some layers extend beyond timeline duration">> ELSE <<>>
      bad == {tlk \in KeyframeIndices(timeline) :
                LET keyframe ==
                      timeline.tracks[tlk[1]].layers[tlk[2]].keyframes[tlk[3]]
                IN  keyframe.time < 0 \/ keyframe.time > timeline.metadata.duration}
      visited == InVisitOrder(bad)
      e4 == [i \in 1..Len(visited) |-> KeyframeError(visited[i])]
      errors == e1 \o e2 \o e3 \o e4
  IN  [isValid |-> Len(errors) = 0, errors |-> errors]

\* what timeline.tracks.flatMap throws when the timeline has no tracks field
NoTracksTypeError ==
  [threw |-> TRUE,
   message |-> "Cannot read properties of undefined (reading 'flatMap')"]

\* (mutant) validateMotionIR without the check for an empty track list
validateMotionIRNoTrackCheck(timeline) ==
  IF "tracks" \notin DOMAIN timeline THEN NoTracksTypeError
  ELSE validateMotionIRBody(timeline, <<>>)

\* validateMotionIR(timeline): the {isValid, errors} it returns, or the
\* TypeError it throws; a field the timeline lacks is absent from its DOMAIN
validateMotionIR(timeline) ==
  IF "tracks" \notin DOMAIN timeline THEN NoTracksTypeError
  ELSE validateMotionIRBody(timeline,
         IF Len(timeline.tracks) = 0
         THEN <<"Timeline must have at least one track">> ELSE <<>>)

(***************************************************************************)
(* The Director: director.ts.                                              *)
(***************************************************************************)
\* the first index from i on whose character is outside the class (Len + 1 if none)
SkipWhile(s, i, class) ==
  CHOOSE k \in i..(Len(s) + 1) :
    /\ k = Len(s) + 1 \/ CharAt(s, k) \notin class
    /\ \A m \in i..(k - 1) : CharAt(s, m) \in class

DigitChars == {CharAt(Digits, d) : d \in 1..10}
ColonOrSpace == {":"} \cup Whitespace

\* a case-insensitive literal at index i
LiteralAt(s, i, lit) ==
  /\ i + Len(lit) - 1 <= Len(s)
  /\ toLowerCase(SubSeq(s, i, i + Len(lit) - 1)) = lit

RECURSIVE parseInt(_)
parseInt(digits) ==
  IF Len(digits) = 0 THEN 0
  ELSE 10 * parseInt(SubSeq(digits, 1, Len(digits) - 1))
         + DigitVal(CharAt(digits, Len(digits)))

(* In what follows  CHOOSE r \in {e(x) : x \in {v}} : TRUE  is e(v) with v   *)
(* computed once.                                                          *)

\* /(\d+)\s*<unit>/i matching at index i: the capture's <<first, last>>
\* indices, or <<0, 0>>
NumberUnitAt(s, i, unit) ==
  IF i > Len(s) \/ CharAt(s, i) \notin DigitChars THEN <<0, 0>>
  ELSE CHOOSE r \in {IF LiteralAt(s, SkipWhile(s, j, Whitespace), unit)
                     THEN <<i, j - 1>> ELSE <<0, 0>> :
                     j \in {SkipWhile(s, i, DigitChars)}} : TRUE

\* /<word>[<separators>]+(\d+)/i matching at index i: the capture's
\* <<first, last>> indices, or <<0, 0>>
WordNumberAt(s, i, word, separators) ==
  IF ~LiteralAt(s, i, word) THEN <<0, 0>>
  ELSE CHOOSE r \in {CHOOSE q \in {IF k > i + Len(word) /\ e > k
                                   THEN <<k, e - 1>> ELSE <<0, 0>> :
                                   e \in {SkipWhile(s, k, DigitChars)}} : TRUE :
                     k \in {SkipWhile(s, i + Len(word), separators)}} : TRUE

\* durationPatterns[n - 1] matching at index i: the capture's <<first, last>>
\* indices, or <<0, 0>>
durationPatternAt(n, s, i) ==
  CASE n = 1 -> NumberUnitAt(s, i, "second")
    [] n = 2 -> NumberUnitAt(s, i, "sec")
    [] n = 3 -> WordNumberAt(s, i, "duration", ColonOrSpace)
    [] n = 4 -> CHOOSE r \in {IF c[1] > 0 /\ NumberUnitAt(s, c[1], "second")[1] > 0
                              THEN c ELSE <<0, 0>> :
                              c \in {WordNumberAt(s, i, "for", Whitespace)}} : TRUE

\* prompt.match(durationPatterns[n - 1]): the capture group of the leftmost
\* match, or "" when the pattern does not match
durationPatternMatch(n, prompt) ==
  CHOOSE r \in
    {IF captures = {} THEN ""
     ELSE CHOOSE q \in {SubSeq(prompt, c[1], c[2]) :
                        c \in {d \in captures :
                                 \A other \in captures : d[1] <= other[1]}} : TRUE :
     captures \in {{c \in {durationPatternAt(n, prompt, i) : i \in 1..Len(prompt)} :
                      c[1] > 0}}} : TRUE

\* extractDurationFromPrompt: seconds, or 0 for null (null and 0 are both falsy
\* for the caller's `|| 5`, and the function never returns 0); a pattern that
\* does not match counts as 0 too
extractDurationFromPrompt(prompt) ==
  CHOOSE r \in
    {IF \E n \in 1..4 : parsed[n] > 0 /\ parsed[n] <= 30
     THEN parsed[CHOOSE n \in 1..4 :
                   /\ parsed[n] > 0 /\ parsed[n] <= 30
                   /\ \A m \in 1..(n - 1) : ~(parsed[m] > 0 /\ parsed[m] <= 30)]
     ELSE 0 :
     parsed \in {<<parseInt(durationPatternMatch(1, prompt)),
                   parseInt(durationPatternMatch(2, prompt)),
                   parseInt(durationPatternMatch(3, prompt)),
                   parseInt(durationPatternMatch(4, prompt))>>}} : TRUE

\* lowerPrompt.includes(k1) || lowerPrompt.includes(k2) || ...
includesAny(lowerPrompt, keywords) == \E k \in keywords : includes(lowerPrompt, k)

\* the direction analyzePrompt reads off the lower-cased prompt
directionOf(lowerPrompt) ==
  [style |->
     IF includesAny(lowerPrompt, {"cinematic", "movie", "film"}) THEN "cinematic"
     ELSE IF includesAny(lowerPrompt, {"dynamic", "energetic", "fast"}) THEN "dynamic"
     ELSE IF includesAny(lowerPrompt, {"dramatic", "intense", "powerful"}) THEN "dramatic"
     ELSE IF includesAny(lowerPrompt, {"minimal", "simple", "clean"}) THEN "minimal"
     ELSE "gentle",
   movement |->
     IF includesAny(lowerPrompt, {"pan", "panorama"}) THEN "pan"
     ELSE IF includesAny(lowerPrompt, {"zoom", "push in", "zoom in"}) THEN "zoom"
     ELSE IF includesAny(lowerPrompt, {"dolly", "slide", "move"}) THEN "dolly"
     ELSE IF includesAny(lowerPrompt, {"orbit", "rotate", "spin"}) THEN "orbit"
     ELSE "static",
   mood |->
     IF includesAny(lowerPrompt, {"energetic", "exciting", "vibrant"}) THEN "energetic"
     ELSE IF includesAny(lowerPrompt, {"mysterious", "dark", "shadow"}) THEN "mysterious"
     ELSE IF includesAny(lowerPrompt, {"uplifting", "bright", "positive"}) THEN "uplifting"
     ELSE IF includesAny(lowerPrompt, {"tense", "intense", "urgent"}) THEN "tense"
     ELSE "calm",
   effects |->
     (IF includesAny(lowerPrompt, {"fade", "fade in", "fade out"})
      THEN <<"fade">> ELSE <<>>)
     \o (IF includesAny(lowerPrompt, {"blur", "depth of field"})
         THEN <<"blur">> ELSE <<>>)
     \o (IF includesAny(lowerPrompt, {"grain", "film grain"})
         THEN <<"film_grain">> ELSE <<>>)
     \o (IF includesAny(lowerPrompt, {"color grade", "color grading"})
         THEN <<"color_grade">> ELSE <<>>)]

\* (mutant) analyzePrompt without the lower-casing
analyzePromptCaseSensitive(prompt) ==
  CHOOSE r \in {directionOf(lowerPrompt) : lowerPrompt \in {prompt}} : TRUE

analyzePrompt(prompt) ==
  CHOOSE r \in {directionOf(lowerPrompt) : lowerPrompt \in {toLowerCase(prompt)}} :
    TRUE

\* (mutant) determineCameraMovement for which two depth layers are enough
determineCameraMovementTwoLayers(direction, sch) ==
  LET type == IF direction.style = "cinematic" \/ Len(sch.scene.depth_layers) >= 2
              THEN "2.5D" ELSE "2D"
      duration == 50     \* const duration = 5
      delay == 5         \* const startTime = 0.5
      to == IF direction.movement = "pan" THEN [x |-> 100, y |-> 0, z |-> 0]
            ELSE IF direction.movement = "zoom" THEN [x |-> 0, y |-> 0, z |-> -200]
            ELSE IF direction.movement = "dolly" THEN [x |-> 0, y |-> 0, z |-> 150]
            ELSE Origin
      movements ==
        IF direction.movement # "static"
        THEN <<[type |-> direction.movement, from |-> Origin, to |-> to,
                startTime |-> delay, duration |-> duration - delay,
                easing |-> IF direction.style = "cinematic"
                           THEN "easeInOut" ELSE "linear"]>>
        ELSE <<>>
  IN  [type |-> type, position |-> Origin, target |-> Origin,
       movements |-> movements]

determineCameraMovement(direction, sch) ==
  LET type == IF direction.style = "cinematic" \/ Len(sch.scene.depth_layers) > 2
              THEN "2.5D" ELSE "2D"
      duration == 50     \* const duration = 5
      delay == 5         \* const startTime = 0.5
      to == IF direction.movement = "pan" THEN [x |-> 100, y |-> 0, z |-> 0]
            ELSE IF direction.movement = "zoom" THEN [x |-> 0, y |-> 0, z |-> -200]
            ELSE IF direction.movement = "dolly" THEN [x |-> 0, y |-> 0, z |-> 150]
            ELSE Origin
      movements ==
        IF direction.movement # "static"
        THEN <<[type |-> direction.movement, from |-> Origin, to |-> to,
                startTime |-> delay, duration |-> duration - delay,
                easing |-> IF direction.style = "cinematic"
                           THEN "easeInOut" ELSE "linear"]>>
        ELSE <<>>
  IN  [type |-> type, position |-> Origin, target |-> Origin,
       movements |-> movements]

\* (mutant) createMainImageLayer with the zoom end keyframe at duration * 1.7
createMainImageLayerLateZoom(assetId, duration, direction, sch) ==
  LET fadeInEffect == [id |-> "fade-in", type |-> "fade",
                       parameters |-> [type |-> "in", duration |-> 5],
                       startTime |-> 0, duration |-> 5]
      fadeOutEffect == [id |-> "fade-out", type |-> "fade",
                        parameters |-> [type |-> "out", duration |-> 5],
                        startTime |-> 10 * duration - 5, duration |-> 5]
      keyframes ==
        IF direction.movement = "zoom"
        THEN <<[time |-> 0,
                properties |-> [scale |-> [x |-> 10, y |-> 10], opacity |-> 10]],
               [time |-> 17 * duration,
                properties |-> [scale |-> [x |-> 12, y |-> 12], opacity |-> 10]]>>
        ELSE IF direction.movement = "pan"
        THEN <<[time |-> 0,
                properties |-> [position |-> [x |-> 0, y |-> 0], opacity |-> 10]],
               [time |-> 6 * duration,
                properties |-> [position |-> [x |-> 100, y |-> 0], opacity |-> 10]]>>
        ELSE <<>>
      moodEffects ==
        IF direction.mood = "mysterious"
        THEN <<[id |-> "dark-overlay", type |-> "opacity",
                parameters |-> [opacity |-> 8],
                startTime |-> 0, duration |-> 10 * duration]>>
        ELSE <<>>
  IN  [id |-> "main-image-layer", name |-> "Main Image", type |-> "image",
       assetId |-> assetId, trackIndex |-> 0, startTime |-> 0,
       duration |-> 10 * duration, keyframes |-> keyframes,
       effects |-> <<fadeInEffect, fadeOutEffect>> \o moodEffects,
       visible |-> TRUE]

\* duration is in seconds; the layer's times are in tenths
createMainImageLayer(assetId, duration, direction, sch) ==
  LET fadeInEffect == [id |-> "fade-in", type |-> "fade",
                       parameters |-> [type |-> "in", duration |-> 5],
                       startTime |-> 0, duration |-> 5]
      fadeOutEffect == [id |-> "fade-out", type |-> "fade",
                        parameters |-> [type |-> "out", duration |-> 5],
                        startTime |-> 10 * duration - 5, duration |-> 5]
      keyframes ==
        IF direction.movement = "zoom"
        THEN <<[time |-> 0,
                properties |-> [scale |-> [x |-> 10, y |-> 10], opacity |-> 10]],
               [time |-> 7 * duration,
                properties |-> [scale |-> [x |-> 12, y |-> 12], opacity |-> 10]]>>
        ELSE IF direction.movement = "pan"
        THEN <<[time |-> 0,
                properties |-> [position |-> [x |-> 0, y |-> 0], opacity |-> 10]],
               [time |-> 6 * duration,
                properties |-> [position |-> [x |-> 100, y |-> 0], opacity |-> 10]]>>
        ELSE <<>>
      moodEffects ==
        IF direction.mood = "mysterious"
        THEN <<[id |-> "dark-overlay", type |-> "opacity",
                parameters |-> [opacity |-> 8],
                startTime |-> 0, duration |-> 10 * duration]>>
        ELSE <<>>
  IN  [id |-> "main-image-layer", name |-> "Main Image", type |-> "image",
       assetId |-> assetId, trackIndex |-> 0, startTime |-> 0,
       duration |-> 10 * duration, keyframes |-> keyframes,
       effects |-> <<fadeInEffect, fadeOutEffect>> \o moodEffects,
       visible |-> TRUE]

createSecondaryLayer(elements, duration) ==
  [id |-> "secondary-elements-layer", name |-> "Secondary Elements",
   type |-> "composition", trackIndex |-> 0, startTime |-> 0,
   duration |-> 10 * duration,
   keyframes |->
     <<[time |-> 0,
        properties |-> [position |-> [x |-> 0, y |-> 0], opacity |-> 7]],
       [time |-> 10 * duration,
        properties |-> [position |-> [x |-> 20, y |-> 0], opacity |-> 7]]>>,
   effects |-> <<>>, visible |-> TRUE]

\* (mutant) createGlobalEffects whose film grain lasts the default 5 seconds
createGlobalEffectsShortGrain(direction, duration) ==
  (IF direction.style = "cinematic"
   THEN <<[id |-> "film-grain", type |-> "filmGrain",
           parameters |-> [intensity |-> 1, opacity |-> 3],
           startTime |-> 0, duration |-> 50]>>
   ELSE <<>>)
  \o (IF direction.mood = "uplifting"
      THEN <<[id |-> "warm-color-grade", type |-> "colorGrade",
              parameters |-> [temperature |-> 2, saturation |-> 1],
              startTime |-> 0, duration |-> 10 * duration]>>
      ELSE IF direction.mood = "mysterious"
      THEN <<[id |-> "cool-color-grade", type |-> "colorGrade",
              parameters |-> [temperature |-> -2, saturation |-> -1,
                              contrast |-> 1],
              startTime |-> 0, duration |-> 10 * duration]>>
      ELSE <<>>)

createGlobalEffects(direction, duration) ==
  (IF direction.style = "cinematic"
   THEN <<[id |-> "film-grain", type |-> "filmGrain",
           parameters |-> [intensity |-> 1, opacity |-> 3],
           startTime |-> 0, duration |-> 10 * duration]>>
   ELSE <<>>)
  \o (IF direction.mood = "uplifting"
      THEN <<[id |-> "warm-color-grade", type |-> "colorGrade",
              parameters |-> [temperature |-> 2, saturation |-> 1],
              startTime |-> 0, duration |-> 10 * duration]>>
      ELSE IF direction.mood = "mysterious"
      THEN <<[id |-> "cool-color-grade", type |-> "colorGrade",
              parameters |-> [temperature |-> -2, saturation |-> -1,
                              contrast |-> 1],
              startTime |-> 0, duration |-> 10 * duration]>>
      ELSE <<>>)

\* the timeline director builds, once it has the duration (s) and the
\* creative direction
directorTimeline(sch, path, now, duration, creativeDirection) ==
  LET imageAsset == [id |-> "main-image", type |-> "image",
                     src |-> IF path # "" THEN path ELSE "placeholder.jpg",
                     metadata |-> [originalWidth |-> 1920,
                                   originalHeight |-> 1080,
                                   dominantColors |-> sch.scene.colors]]
      mainLayer == createMainImageLayer(imageAsset.id, duration,
                                        creativeDirection, sch)
      layers == <<mainLayer>>
                \o (IF Len(sch.elements.secondary) > 0
                    THEN <<createSecondaryLayer(sch.elements.secondary, duration)>>
                    ELSE <<>>)
      videoTrack == [id |-> "video-track-1", name |-> "Main Video Track",
                     index |-> 0, type |-> "video", layers |-> layers,
                     locked |-> FALSE, visible |-> TRUE]
  IN  [createBasicTimeline(5, 1920, 1080, 30, now) EXCEPT
         !.metadata.duration = 10 * duration,
         !.metadata.backgroundColor =
            IF Len(sch.scene.colors) > 0 THEN sch.scene.colors[1] ELSE @,
         !.assets = <<imageAsset>>,
         !.camera = determineCameraMovement(creativeDirection, sch),
         !.tracks = <<videoTrack>>,
         !.globalEffects = createGlobalEffects(creativeDirection, duration)]

\* director(schema, prompt, imagePath), called at time now (ms); an omitted
\* imagePath is ""
director(sch, prompt, path, now) ==
  CHOOSE r \in
    {[timeline |-> timeline, validation |-> validateMotionIR(timeline)] :
     timeline \in
       {directorTimeline(sch, path, now,
                         IF extracted # 0 THEN extracted ELSE 5,
                         creativeDirection) :
        extracted \in {extractDurationFromPrompt(prompt)},
        creativeDirection \in {analyzePrompt(prompt)}}} : TRUE

(***************************************************************************)
(* Calls of the Director on one input, at successive times of the wall      *)
(* clock.                                                                   *)
(***************************************************************************)
MaxDirectorClock == 2   \* the wall clock runs over 0..MaxDirectorClock ms
MaxDirectorCalls == 2   \* director is called at most MaxDirectorCalls times

\* Schemas given to the Director: generateEnhancedMockSchema's, the defaults
\* of parseVisualAnalysis, and one with no secondary elements and no colors
DirectorSchemas ==
  {[elements |-> [primary |-> <<"main subject", "central element">>,
                  secondary |-> <<"background elements", "supporting objects",
                                  "environmental context">>],
    scene |-> [emotion |-> "calm", lighting |-> "balanced lighting",
               colors |-> <<"#2563eb", "#ffffff", "#f1f5f9">>,
               depth_layers |-> <<"foreground", "midground", "background">>]],
   [elements |-> [primary |-> <<"main subject", "focal point">>,
                  secondary |-> <<"background elements", "supporting objects">>],
    scene |-> [emotion |-> "neutral", lighting |-> "natural",
               colors |-> <<"#000000", "#ffffff">>,
               depth_layers |-> <<"foreground", "background">>]],
   [elements |-> [primary |-> <<"main subject">>, secondary |-> <<>>],
    scene |-> [emotion |-> "neutral", lighting |-> "natural",
               colors |-> <<>>,
               depth_layers |-> <<"foreground", "background">>]]}

Prompts ==
  {"make this cinematic, 8 seconds", "slow zoom in", "pan across the scene",
   "a wide panorama", "dolly forward", "orbit around it", "Intense action",
   "mysterious dark mood", "uplifting and bright", "energetic and fast",
   "minimal clean look", "a calm scene", "expand the view",
   "45 seconds", "0 seconds", "30 sec", "31 sec", "1 second", "12seconds",
   "duration: 12", "Duration 7", "for 10 seconds", "45 seconds, duration: 20",
   "3 SECONDS of film grain", "zoom for 2 seconds with fade",
   "wait 100 sec then 5 seconds", "mysterious zoom, 4 seconds",
   "45 seconds then 8 seconds", "duration: 12 then 3 seconds", "zoom in slowly",
   "cinematic pan for 20 seconds", "uplifting movie", "color grade with blur",
   "Dramatic FILM, zoom then PAN, dark but exciting"}

IdlePipeline ==
  /\ pc = "idle"
  /\ stage = None
  /\ attempt = 0
  /\ calls = [s \in StageSet |-> 0]
  /\ hist = [s \in StageSet |-> <<>>]
  /\ clock = 0
  /\ slack = 0
  /\ startTime = 0
  /\ config = DEFAULT_CONFIG
  /\ input = [imagePath |-> imagePath, prompt |-> "zoom in"]
  /\ schema = Undefined
  /\ motionIR = Undefined
  /\ outcome = Pending

DirectorPaths == {"", imagePath}

InitDirector ==
  /\ IdlePipeline
  /\ \E sch \in DirectorSchemas, prompt \in Prompts, path \in DirectorPaths :
       dir = [on |-> TRUE, schema |-> sch, prompt |-> prompt, path |-> path,
              now |-> 0, results |-> <<>>]
  /\ cod = NoSub /\ rnd = NoSub /\ runs = NoSub
  /\ mpr = NoSub /\ val = NoSub

\* the wall clock advances between calls
DirectorClockTick ==
  /\ dir.on
  /\ dir.now < MaxDirectorClock
  /\ dir' = [dir EXCEPT !.now = @ + 1]
  /\ UNCHANGED <<pipeVars, cod, rnd, runs, mpr, val>>

\* director(schema, prompt, imagePath)
DirectorCall ==
  /\ dir.on
  /\ Len(dir.results) < MaxDirectorCalls
  /\ dir' = [dir EXCEPT
               !.results = Append(@, director(dir.schema, dir.prompt, dir.path,
                                              dir.now))]
  /\ UNCHANGED <<pipeVars, cod, rnd, runs, mpr, val>>

NextDirector == DirectorClockTick \/ DirectorCall

SpecDirector == InitDirector /\ [][NextDirector]_vars

(***************************************************************************)
(* The Coder's style computation: coder.tsx.  Keyframe times and values    *)
(* are in the timeline's units; an interpolation progress is in            *)
(* thousandths, rounded down.                                              *)
(***************************************************************************)
EmptyStyle == [field \in {} |-> 0]

Has(properties, field) == field \in DOMAIN properties

Easing(keyframe) == IF Has(keyframe, "easing") THEN keyframe.easing ELSE "linear"

keyframeToStyle(keyframe) ==
  LET props == keyframe.properties
      s1 == IF Has(props, "position")
            THEN [positionX |-> props.position.x, positionY |-> props.position.y]
            ELSE EmptyStyle
      s2 == IF Has(props, "scale")
            THEN [scaleX |-> props.scale.x, scaleY |-> props.scale.y]
            ELSE EmptyStyle
      s3 == IF Has(props, "rotation")
            THEN [transform |-> "rotate(" \o ToString(props.rotation.z) \o "deg)"]
            ELSE EmptyStyle
      s4 == IF Has(props, "opacity")
            THEN [opacity |-> props.opacity]
            ELSE EmptyStyle
      s5 == IF Has(props, "filter") /\ props.filter # ""
            THEN [filter |-> props.filter]
            ELSE EmptyStyle
      s6 == IF Has(props, "color") /\ props.color # ""
            THEN [color |-> props.color]
            ELSE EmptyStyle
  IN  s6 @@ s5 @@ s4 @@ s3 @@ s2 @@ s1

\* from + (to - from) * progress
Lerp(from, to, progress) == (1000 * from + (to - from) * progress) \div 1000

interpolateKeyframes(from, to, progress) ==
  LET fp == from.properties
      tp == to.properties
      Both(field) == Has(fp, field) /\ Has(tp, field)
      position == IF Both("position")
                  THEN [position |-> [x |-> Lerp(fp.position.x, tp.position.x, progress),
                                      y |-> Lerp(fp.position.y, tp.position.y, progress)]]
                  ELSE EmptyStyle
      scale == IF Both("scale")
               THEN [scale |-> [x |-> Lerp(fp.scale.x, tp.scale.x, progress),
                                y |-> Lerp(fp.scale.y, tp.scale.y, progress)]]
               ELSE EmptyStyle
      rotation == IF Both("rotation")
                  THEN [rotation |-> [z |-> Lerp(fp.rotation.z, tp.rotation.z, progress)]]
                  ELSE EmptyStyle
      opacity == IF Both("opacity")
                 THEN [opacity |-> Lerp(fp.opacity, tp.opacity, progress)]
                 ELSE EmptyStyle
  IN  [time |-> from.time,
       properties |-> opacity @@ rotation @@ scale @@ position @@ fp]

applyEasing(progress, easing) ==
  CASE easing = "easeIn" -> (progress * progress) \div 1000
    [] easing = "easeOut" -> (progress * (2000 - progress)) \div 1000
    [] easing = "easeInOut" ->
         IF progress < 500 THEN (2 * progress * progress) \div 1000
         ELSE ((4000 - 2 * progress) * progress) \div 1000 - 1000
    [] easing = "spring" ->
         1000 - ((1000 - progress) * (1000 - progress) * (1000 - progress))
                  \div 1000000
    [] OTHER -> progress

\* keyframes.find(kf => kf.time > currentTime): the index of the first such
\* keyframe in array order, or 0 for undefined
findNext(keyframes, currentTime) ==
  IF \E i \in 1..Len(keyframes) : keyframes[i].time > currentTime
  THEN CHOOSE i \in 1..Len(keyframes) :
         /\ keyframes[i].time > currentTime
         /\ \A j \in 1..(i - 1) : keyframes[j].time <= currentTime
  ELSE 0

\* (mutant) calculateAnimatedStyle that takes the first active keyframe
calculateAnimatedStyleFirstActive(layer, currentTime) ==
  LET keyframes == layer.keyframes
      next == findNext(keyframes, currentTime)
      Active(kf) ==
        /\ kf.time <= currentTime
        /\ \/ next = 0
           \/ keyframes[next].time = kf.time
      activeKeyframes == SelectSeq(keyframes, Active)
  IN  IF Len(activeKeyframes) = 0 THEN EmptyStyle
      ELSE LET currentKeyframe == activeKeyframes[1]
           IN  IF next = 0 THEN keyframeToStyle(currentKeyframe)
               ELSE LET nextKeyframe == keyframes[next]
                        progress == (1000 * (currentTime - currentKeyframe.time))
                                      \div (nextKeyframe.time - currentKeyframe.time)
                        easedProgress == applyEasing(progress, Easing(currentKeyframe))
                    IN  keyframeToStyle(interpolateKeyframes(currentKeyframe,
                                                             nextKeyframe,
                                                             easedProgress))

calculateAnimatedStyle(layer, currentTime) ==
  LET keyframes == layer.keyframes
      next == findNext(keyframes, currentTime)
      Active(kf) ==
        /\ kf.time <= currentTime
        /\ \/ next = 0
           \/ keyframes[next].time = kf.time
      activeKeyframes == SelectSeq(keyframes, Active)
  IN  IF Len(activeKeyframes) = 0 THEN EmptyStyle
      ELSE LET currentKeyframe == activeKeyframes[Len(activeKeyframes)]
           IN  IF next = 0 THEN keyframeToStyle(currentKeyframe)
               ELSE LET nextKeyframe == keyframes[next]
                        progress == (1000 * (currentTime - currentKeyframe.time))
                                      \div (nextKeyframe.time - currentKeyframe.time)
                        easedProgress == applyEasing(progress, Easing(currentKeyframe))
                    IN  keyframeToStyle(interpolateKeyframes(currentKeyframe,
                                                             nextKeyframe,
                                                             easedProgress))

(***************************************************************************)
(* Style computations on one layer.                                        *)
(***************************************************************************)
MaxQueryTime == 15   \* query times range over -MaxQueryTime..MaxQueryTime tenths

QueryTimes == (0 - MaxQueryTime)..MaxQueryTime

Opacity(t, v) == [time |-> t, properties |-> [opacity |-> v]]

\* keyframe lists: none; the fade 0 -> 1 over one second; one keyframe; the
\* Director's zoom, pan and parallax over one second; an eased fade; a
\* rotation; keyframes out of time order; two keyframes at one time; filter
\* and colour
CoderKeyframes ==
  {<<>>,
   <<Opacity(0, 0), [time |-> 10, properties |-> [opacity |-> 10],
                     easing |-> "linear"]>>,
   <<Opacity(5, 8)>>,
   <<Opacity(0, 0), Opacity(5, 10), Opacity(10, 0)>>,
   createMainImageLayer("main-image", 1, [movement |-> "zoom", mood |-> "calm"],
                        Undefined).keyframes,
   createMainImageLayer("main-image", 1, [movement |-> "pan", mood |-> "calm"],
                        Undefined).keyframes,
   createSecondaryLayer(<<"background elements">>, 1).keyframes,
   <<[time |-> 0, properties |-> [opacity |-> 0], easing |-> "easeIn"],
     Opacity(10, 10)>>,
   <<[time |-> 0, properties |-> [rotation |-> [z |-> 0], opacity |-> 10]],
     [time |-> 10, properties |-> [rotation |-> [z |-> 90], opacity |-> 10]]>>,
   <<Opacity(10, 10), Opacity(0, 0)>>,
   <<Opacity(5, 3), Opacity(5, 9)>>,
   <<[time |-> 0, properties |-> [opacity |-> 10, filter |-> "blur(2px)",
                                  color |-> "#ff0000"]],
     [time |-> 10, properties |-> [opacity |-> 5, filter |-> "blur(0px)",
                                   color |-> "#00ff00"]]>>}

InitCoder ==
  /\ IdlePipeline
  /\ \E keyframes \in CoderKeyframes :
       cod = [on |-> TRUE,
              layer |-> [id |-> "layer", type |-> "image", startTime |-> 0,
                         duration |-> 10, keyframes |-> keyframes],
              called |-> FALSE, currentTime |-> 0, style |-> EmptyStyle]
  /\ dir = NoSub /\ rnd = NoSub /\ runs = NoSub
  /\ mpr = NoSub /\ val = NoSub

\* calculateAnimatedStyle(layer, currentTime) at any query time
CalculateAnimatedStyle ==
  /\ cod.on
  /\ \E currentTime \in QueryTimes :
       cod' = [cod EXCEPT !.called = TRUE, !.currentTime = currentTime,
                          !.style = calculateAnimatedStyle(cod.layer, currentTime)]
  /\ UNCHANGED <<pipeVars, dir, rnd, runs, mpr, val>>

\* LayerComponent: const currentTime = 0
LayerComponent ==
  /\ cod.on
  /\ cod' = [cod EXCEPT !.called = TRUE, !.currentTime = 0,
                        !.style = calculateAnimatedStyle(cod.layer, 0)]
  /\ UNCHANGED <<pipeVars, dir, rnd, runs, mpr, val>>

NextCoder == CalculateAnimatedStyle \/ LayerComponent

SpecCoder == InitCoder /\ [][NextCoder]_vars

(***************************************************************************)
(* The Coder's effects: EffectComponent and calculateEffectStyle in        *)
(* coder.tsx, and the composition that mounts them.  Times are in tenths   *)
(* of a second; a progress and an opacity are in thousandths, rounded      *)
(* down; the effects have a positive duration, as all the Director's have. *)
(***************************************************************************)
\* calculateEffectStyle(effect, currentTime)
calculateEffectStyle(effect, currentTime) ==
  LET effectProgress == ((currentTime - effect.startTime) * 1000) \div effect.duration
      clampedProgress == IF effectProgress < 0 THEN 0
                         ELSE IF effectProgress > 1000 THEN 1000
                         ELSE effectProgress
      parameters == effect.parameters
  IN  CASE effect.type = "fade" ->
             IF Has(parameters, "type") /\ parameters.type = "in"
             THEN [opacity |-> clampedProgress]
             ELSE IF Has(parameters, "type") /\ parameters.type = "out"
             THEN [opacity |-> 1000 - clampedProgress]
             ELSE EmptyStyle
        [] effect.type = "blur" ->
             [filter |-> "blur(" \o ToString(IF Has(parameters, "intensity")
                                                /\ parameters.intensity # 0
                                             THEN parameters.intensity ELSE 5)
                         \o "px)"]
        [] effect.type = "opacity" ->
             IF Has(parameters, "opacity")
             THEN [opacity |-> 100 * parameters.opacity]
             ELSE EmptyStyle
        [] effect.type = "colorGrade" ->
             \* sepia in thousandths, hue-rotate in tenths of a degree
             IF Has(parameters, "temperature") /\ parameters.temperature # 0
             THEN [filter |->
                     [sepia |-> 30 * (IF parameters.temperature < 0
                                      THEN 0 - parameters.temperature
                                      ELSE parameters.temperature),
                      hueRotate |-> 45 * parameters.temperature]]
             ELSE EmptyStyle
        [] effect.type = "filmGrain" ->
             [backgroundImage |-> "url(data:image/svg+xml;base64,...)",
              backgroundSize |-> "100px 100px"]
        [] OTHER -> EmptyStyle

\* a component that returns null
Nothing == [rendered |-> FALSE]

\* EffectComponent: const currentTime = 0
EffectComponent(effect) ==
  LET currentTime == 0
  IN  IF currentTime < effect.startTime
         \/ currentTime > effect.startTime + effect.duration
      THEN Nothing
      ELSE [rendered |-> TRUE,
            style |-> calculateEffectStyle(effect, currentTime)
                        @@ [pointerEvents |-> "none"]]

(* What DynamicComposition mounts for an effect: an EffectComponent for an *)
(* effect of timeline.globalEffects; LayerComponent does not read          *)
(* layer.effects, so an effect of a layer gets no element.                 *)
DynamicComposition(place, effect) ==
  IF place = "global" THEN EffectComponent(effect) ELSE Nothing

\* the effects of a list
EffectsOf(effects) == {effects[i] : i \in 1..Len(effects)}

Fade(type, start, length) ==
  [id |-> "fade", type |-> "fade", parameters |-> [type |-> type],
   startTime |-> start, duration |-> length]

(* The effects rendered: those the Director gives the main layer and the   *)
(* timeline of a one-second video, and fades, a blur and an effect of      *)
(* another type with windows of their own, on a layer and global.          *)
PlacedEffects ==
  {[place |-> "layer", effect |-> effect] :
     effect \in
       EffectsOf(createMainImageLayer("main-image", 1,
                                      [movement |-> "static", mood |-> "mysterious"],
                                      Undefined).effects)}
  \cup
  {[place |-> "global", effect |-> effect] :
     effect \in
       EffectsOf(createGlobalEffects([style |-> "cinematic", mood |-> "uplifting"], 1))
       \cup
       EffectsOf(createGlobalEffects([style |-> "gentle", mood |-> "mysterious"], 1))}
  \cup
  {[place |-> place, effect |-> effect] :
     place \in {"layer", "global"},
     effect \in {Fade("in", 0, 5), Fade("in", 2, 6), Fade("out", 0, 4),
                 Fade("out", 4, 8), Fade("in", 3, 3),
                 [id |-> "blur", type |-> "blur", parameters |-> [intensity |-> 0],
                  startTime |-> 3, duration |-> 4],
                 [id |-> "glow", type |-> "glow", parameters |-> EmptyStyle,
                  startTime |-> 0, duration |-> 10]}}

InitEffects ==
  /\ IdlePipeline
  /\ \E placed \in PlacedEffects :
       cod = [on |-> TRUE, place |-> placed.place, effect |-> placed.effect,
              calculated |-> FALSE, currentTime |-> 0, style |-> EmptyStyle,
              rendered |-> FALSE, frameTime |-> 0, output |-> Nothing]
  /\ dir = NoSub /\ rnd = NoSub /\ runs = NoSub
  /\ mpr = NoSub /\ val = NoSub

\* calculateEffectStyle(effect, currentTime) at any query time
CalculateEffectStyle ==
  /\ cod.on
  /\ \E currentTime \in QueryTimes :
       cod' = [cod EXCEPT !.calculated = TRUE, !.currentTime = currentTime,
                          !.style = calculateEffectStyle(cod.effect, currentTime)]
  /\ UNCHANGED <<pipeVars, dir, rnd, runs, mpr, val>>

\* the composition is rendered for the frame at frameTime
RenderFrame ==
  /\ cod.on
  /\ \E frameTime \in 0..MaxQueryTime :
       cod' = [cod EXCEPT !.rendered = TRUE, !.frameTime = frameTime,
                          !.output = DynamicComposition(cod.place, cod.effect)]
  /\ UNCHANGED <<pipeVars, dir, rnd, runs, mpr, val>>

NextEffects == CalculateEffectStyle \/ RenderFrame

SpecEffects == InitEffects /\ [][NextEffects]_vars

(***************************************************************************)
(* One render: renderVideo and renderWithCLI in renderer.ts, with the      *)
(* render process, its 'close' and 'error' events and the timeout timer.   *)
(* Times are in ms; time passes a minute at a time.                        *)
(***************************************************************************)
MaxRenderMinutes == 7   \* a render is followed for MaxRenderMinutes minutes

Minutes(n) == 60000 * n

\* the delay of renderWithCLI's setTimeout
CLI_TIMEOUT == 300000

\* PipelineConfig.timeout and RenderConfig.timeout as a caller sets them; a
\* render configuration may leave timeout out
PipelineTimeouts == {Minutes(1), Minutes(5), Minutes(10)}
RenderConfigs ==
  {DEFAULT_CONFIG.renderConfig}
    \cup {DEFAULT_CONFIG.renderConfig @@ [timeout |-> t] : t \in PipelineTimeouts}

\* the timeout the caller configured: RenderConfig.timeout, else
\* PipelineConfig.timeout
ConfiguredTimeout(pipelineConfig, renderConfig) ==
  IF "timeout" \in DOMAIN renderConfig THEN renderConfig.timeout
  ELSE pipelineConfig.timeout

\* (mutant) a promise that a later resolve or reject settles again
SettleAgain(r, state, value) == [r EXCEPT !.promise = state, !.value = value]

\* reject(new Error(message)) / resolve(value): a settled promise stays as it is
Settle(r, state, value) ==
  IF r.promise = "pending" THEN [r EXCEPT !.promise = state, !.value = value]
  ELSE r

InitRender ==
  /\ IdlePipeline
  /\ \E t \in PipelineTimeouts, renderConfig \in RenderConfigs :
       rnd = [on |-> TRUE,
              pipelineConfig |-> [DEFAULT_CONFIG EXCEPT !.timeout = t,
                                                        !.renderConfig = renderConfig],
              phase |-> "called", elapsed |-> 0,
              proc |-> "none", code |-> -1, timer |-> "none", file |-> "none",
              promise |-> "pending", value |-> "",
              outcome |-> [kind |-> "pending", value |-> ""]]
  /\ dir = NoSub /\ cod = NoSub /\ runs = NoSub
  /\ mpr = NoSub /\ val = NoSub

\* renderVideo up to the await, and renderWithCLI up to the timer's arming
RenderVideoStart ==
  /\ rnd.on /\ rnd.phase = "called"
  /\ \E imageExists \in BOOLEAN :
       IF ~imageExists
       THEN rnd' = [rnd EXCEPT
                      !.phase = "done",
                      !.outcome =
                         [kind |-> "threw",
                          value |-> renderVideoCatch(
                                      "Image file not found: " \o imagePath,
                                      rnd.pipelineConfig.renderConfig)]]
       ELSE rnd' = [rnd EXCEPT !.phase = "awaiting", !.proc = "running",
                               !.timer = "armed"]
  /\ UNCHANGED <<pipeVars, dir, cod, runs, mpr, val>>

\* a minute passes; an armed timer fires no later than its time
RenderTick ==
  /\ rnd.on /\ rnd.phase # "called"
  /\ rnd.elapsed < Minutes(MaxRenderMinutes)
  /\ rnd.timer = "armed" => rnd.elapsed < CLI_TIMEOUT
  /\ rnd' = [rnd EXCEPT !.elapsed = @ + Minutes(1)]
  /\ UNCHANGED <<pipeVars, dir, cod, runs, mpr, val>>

\* renderProcess.on('close', ...): both handlers
ProcessClose ==
  /\ rnd.on /\ rnd.proc \in {"running", "signalled", "failed"}
  /\ \E code \in {0, 1}, file \in {"written", "missing", "empty"} :
       /\ rnd.proc = "failed" => code # 0
       /\ LET closed == [rnd EXCEPT
                           !.proc = "closed", !.code = code, !.file = file,
                           !.timer = IF @ = "armed" THEN "cleared" ELSE @]
          IN  rnd' =
                IF code = 0
                THEN IF file = "missing"
                     THEN Settle(closed, "rejected",
                                 "Remotion process succeeded but output file not found: "
                                   \o outputPath)
                     ELSE IF file = "empty"
                     THEN Settle(closed, "rejected",
                                 "Remotion process succeeded but created empty file: "
                                   \o outputPath)
                     ELSE Settle(closed, "resolved", outputPath)
                ELSE Settle(closed, "rejected",
                            "Remotion CLI rendering failed with exit code "
                              \o ToString(code) \o ". stderr: ")
  /\ UNCHANGED <<pipeVars, dir, cod, runs, mpr, val>>

\* renderProcess.on('error', ...): the process could not be spawned; the
\* timer stays armed
ProcessError ==
  /\ rnd.on /\ rnd.proc = "running" /\ rnd.elapsed = 0
  /\ rnd' = Settle([rnd EXCEPT !.proc = "failed"], "rejected",
                   "Remotion CLI rendering process error: spawn npx ENOENT")
  /\ UNCHANGED <<pipeVars, dir, cod, runs, mpr, val>>

\* the setTimeout callback: kill('SIGTERM') and reject
TimeoutFires ==
  /\ rnd.on /\ rnd.timer = "armed" /\ rnd.elapsed >= CLI_TIMEOUT
  /\ rnd' = Settle([rnd EXCEPT
                      !.timer = "fired",
                      !.proc = IF @ = "running" THEN "signalled" ELSE @],
                   "rejected", "Remotion rendering timed out after 5 minutes")
  /\ UNCHANGED <<pipeVars, dir, cod, runs, mpr, val>>

\* renderVideo after the await: the output checks, or the catch block
RenderVideoResumes ==
  /\ rnd.on /\ rnd.phase = "awaiting" /\ rnd.promise # "pending"
  /\ LET thrown(message) ==
           [kind |-> "threw",
            value |-> renderVideoCatch(message, rnd.pipelineConfig.renderConfig)]
     IN  rnd' = [rnd EXCEPT
                   !.phase = "done",
                   !.outcome =
                      IF rnd.promise = "rejected" THEN thrown(rnd.value)
                      ELSE IF rnd.file = "missing"
                      THEN thrown("Remotion rendering completed but output file was not created at: "
                                    \o rnd.value)
                      ELSE IF rnd.file = "empty"
                      THEN thrown("Remotion rendering created an empty file (0 bytes): "
                                    \o rnd.value)
                      ELSE [kind |-> "returned", value |-> rnd.value]]
  /\ UNCHANGED <<pipeVars, dir, cod, runs, mpr, val>>

NextRender ==
  \/ RenderVideoStart
  \/ RenderTick
  \/ ProcessClose
  \/ ProcessError
  \/ TimeoutFires
  \/ RenderVideoResumes

SpecRender == InitRender /\ [][NextRender]_vars

\* time passes and a due timer's callback runs
SpecRenderLive ==
  SpecRender /\ WF_vars(RenderTick) /\ WF_vars(TimeoutFires)

(***************************************************************************)
(* renderer.ts: the names renderVideo, renderWithCLI and                   *)
(* createTemporaryCompositionFile give to the files of one render, for     *)
(* several renders of one server process that share ../temp and ../output. *)
(***************************************************************************)
MaxRunsClock == 2           \* Date.now() runs over 0..MaxRunsClock ms
MaxConcurrentRenders == 2   \* renderVideo is called at most this many times

\* Math.random().toString(36).substr(2, 9): nine base-36 digits
RenderIds == {"4fzzzxjyl", "k3x9q2m1a"}

outputDir == "/app/output/"
tempDir == "/app/temp/"

RECURSIVE LastIndexOf(_, _, _)
LastIndexOf(s, c, i) ==
  IF i = 0 THEN 0
  ELSE IF CharAt(s, i) = c THEN i
  ELSE LastIndexOf(s, c, i - 1)

\* path.extname: from the last "." of the last path segment, "" without one
extname(p) ==
  LET dot == LastIndexOf(p, ".", Len(p))
      slash == LastIndexOf(p, "/", Len(p))
  IN  IF dot = 0 \/ dot <= slash + 1 THEN "" ELSE SubSeq(p, dot, Len(p))

videoPathOf(timestamp) == outputDir \o "output-" \o ToString(timestamp) \o ".mp4"

compositionFilePathOf(now, renderId) ==
  tempDir \o "temp-composition-" \o ToString(now) \o "-"
    \o (IF renderId = "" THEN "unknown" ELSE renderId) \o ".tsx"

\* "" stands for undefined: no image, or the image file does not exist
tempImagePathOf(now, renderId, image) ==
  IF image = "" THEN ""
  ELSE tempDir \o "temp-image-" \o ToString(now) \o "-"
         \o (IF renderId = "" THEN "unknown" ELSE renderId) \o extname(image)

InitRuns ==
  /\ IdlePipeline
  /\ dir = NoSub /\ cod = NoSub /\ rnd = NoSub
  /\ mpr = NoSub /\ val = NoSub
  /\ runs = [on |-> TRUE, now |-> 0, started |-> <<>>]

RunsClockTick ==
  /\ runs.on
  /\ runs.now < MaxRunsClock
  /\ runs' = [runs EXCEPT !.now = @ + 1]
  /\ UNCHANGED <<pipeVars, dir, cod, rnd, mpr, val>>

\* renderVideo up to the spawn of the CLI: the render id, the output path,
\* then (createTemporaryCompositionFile) the composition and image files,
\* each stamped with its own reading of Date.now()
RenderVideoNamesFiles ==
  /\ runs.on
  /\ Len(runs.started) < MaxConcurrentRenders
  /\ \E renderId \in RenderIds, image \in {"", imagePath}, d1 \in 0..1, d2 \in 0..1 :
       LET timestamp == runs.now
           nowComposition == timestamp + d1
           nowImage == nowComposition + d2
       IN  /\ nowImage <= MaxRunsClock
           /\ runs' = [runs EXCEPT
                 !.now = nowImage,
                 !.started = Append(@,
                    [renderId |-> renderId,
                     timestamp |-> timestamp,
                     videoPath |-> videoPathOf(timestamp),
                     compositionFilePath |-> compositionFilePathOf(nowComposition, renderId),
                     tempImagePath |-> tempImagePathOf(nowImage, renderId, image),
                     settled |-> FALSE,
                     during |-> {i \in 1..Len(runs.started) : ~runs.started[i].settled}])]
  /\ UNCHANGED <<pipeVars, dir, cod, rnd, mpr, val>>

\* the CLI process of a render closes; a render takes more than a millisecond
RenderSettles ==
  /\ runs.on
  /\ \E i \in 1..Len(runs.started) :
       /\ ~runs.started[i].settled
       /\ runs.now > runs.started[i].timestamp
       /\ runs' = [runs EXCEPT !.started[i].settled = TRUE]
  /\ UNCHANGED <<pipeVars, dir, cod, rnd, mpr, val>>

NextRuns == RunsClockTick \/ RenderVideoNamesFiles \/ RenderSettles

SpecRuns == InitRuns /\ [][NextRuns]_vars

(***************************************************************************)
(* mapper.js: mapper, its helpers and the fallback schema.  JavaScript     *)
(* values whose type the code tests carry their type: Arr, Str, Num, Undef. *)
(***************************************************************************)
Arr(a) == [t |-> "array", v |-> a]
Str(s) == [t |-> "string", v |-> s]
Num(n) == [t |-> "number", v |-> n]
Undef == [t |-> "undefined"]

\* JavaScript truthiness
Truthy(x) ==
  CASE x.t = "undefined" -> FALSE
    [] x.t = "string" -> x.v # ""
    [] x.t = "number" -> x.v # 0
    [] OTHER -> TRUE

\* analysis.a?.b, the analysis being a map from the paths it has to values
Field(analysis, path) ==
  IF path \in DOMAIN analysis THEN analysis[path] ELSE Undef

\* a || b || ...: the first truthy value of a non-empty list, else its last
RECURSIVE FirstTruthy(_)
FirstTruthy(values) ==
  IF Len(values) = 1 \/ Truthy(Head(values)) THEN Head(values)
  ELSE FirstTruthy(Tail(values))

RECURSIVE IndexOf(_, _, _)
IndexOf(s, c, i) ==
  IF i > Len(s) THEN 0
  ELSE IF CharAt(s, i) = c THEN i
  ELSE IndexOf(s, c, i + 1)

\* content.match(/\{[\s\S]*\}/): from the first "{" to the last "}" after it;
\* "" stands for null
jsonMatch(content) ==
  LET open == IndexOf(content, "{", 1)
      close == LastIndexOf(content, "}", Len(content))
  IN  IF open = 0 \/ close < open THEN "" ELSE SubSeq(content, open, close)

\* JSON.parse on the texts the model's responses contain
JSONparse(text) ==
  CASE text = "{\"mood\":\"calm\"}" ->
         [ok |-> TRUE, value |-> ("mood" :> Str("calm"))]
    [] text = "{\"colors\":\"red\"}" ->
         [ok |-> TRUE, value |-> ("colors" :> Str("red"))]
    [] text = "{\"error\":\"rate limited\"}" ->
         [ok |-> TRUE, value |-> ("error" :> Str("rate limited"))]
    [] text = "{\"element_analysis\":{\"primary\":5}}" ->
         [ok |-> TRUE, value |-> ("element_analysis.primary" :> Num(5))]
    [] text = "{\"visual_properties\":{\"dominant_colors\":[\"#112233\"]}}" ->
         [ok |-> TRUE,
          value |-> ("visual_properties.dominant_colors" :> Arr(<<"#112233">>))]
    [] OTHER -> [ok |-> FALSE]   \* SyntaxError

generateEnhancedMockSchema(path) ==
  LET lower == toLowerCase(path)
      portrait == includes(lower, "portrait")
      landscape == ~portrait /\ includes(lower, "landscape")
      abstract == ~portrait /\ ~landscape /\ includes(lower, "abstract")
  IN  [elements |->
         [primary |-> Arr((IF portrait THEN <<"person">> ELSE <<>>)
                            \o <<"main subject", "central element">>),
          secondary |-> Arr(<<"background elements", "supporting objects",
                              "environmental context">>
                              \o (IF landscape THEN <<"horizon">> ELSE <<>>))],
       scene |->
         [emotion |-> Str("calm"),
          lighting |-> Str("balanced lighting"),
          colors |-> Arr(<<"#2563eb", "#ffffff", "#f1f5f9">>),
          depth_layers |-> Arr(<<"foreground", "midground", "background">>
                                 \o (IF landscape THEN <<"far background">> ELSE <<>>))],
       composition |->
         [focus |-> Str("center"),
          perspective |-> Str(IF portrait THEN "close-up"
                              ELSE IF landscape THEN "wide" ELSE "frontal"),
          style |-> Str(IF abstract THEN "abstract" ELSE "photographic")],
       visual_analysis |->
         [dominant_colors |-> Arr(<<"#2563eb", "#ffffff", "#f1f5f9">>),
          contrast_ratio |-> Num(6),                            \* tenths
          complexity_score |-> Num(IF abstract THEN 8 ELSE 4)]] \* tenths

\* elements.push(...x): x's items for an array, its characters for a string;
\* anything else is not iterable (TypeError)
Spreadable(x) == x.t \in {"array", "string"}
Spread(x) ==
  IF x.t = "array" THEN x.v ELSE [i \in 1..Len(x.v) |-> CharAt(x.v, i)]

\* the value extractPrimaryElements / extractSecondaryElements spreads:
\* the first of the three places that is truthy, Undef when none is
ElementsSource(analysis, which) ==
  LET a == Field(analysis, "element_analysis." \o which)
      b == Field(analysis, which \o "_elements")
      c == Field(analysis, "elements." \o which)
  IN  IF Truthy(a) THEN a ELSE IF Truthy(b) THEN b ELSE IF Truthy(c) THEN c ELSE Undef

extractElements(analysis, which, fallback) ==
  LET x == ElementsSource(analysis, which)
      elements == IF x.t = "undefined" THEN <<>> ELSE Spread(x)
  IN  Arr(IF Len(elements) = 0 THEN fallback ELSE elements)

extractSceneInfo(analysis) ==
  [emotion |-> FirstTruthy(<<Field(analysis, "scene.emotion"),
                             Field(analysis, "mood"), Str("neutral")>>),
   lighting |-> FirstTruthy(<<Field(analysis, "visual_properties.lighting"),
                              Field(analysis, "lighting"), Str("natural")>>),
   colors |-> FirstTruthy(<<Field(analysis, "visual_properties.dominant_colors"),
                            Field(analysis, "colors"),
                            Arr(<<"#000000", "#ffffff">>)>>),
   depth_layers |-> FirstTruthy(<<Field(analysis, "depth_and_layers.layers"),
                                  Arr(<<"foreground", "background">>)>>)]

extractCompositionInfo(analysis) ==
  [focus |-> FirstTruthy(<<Field(analysis, "compositional_analysis.focus"),
                           Str("center")>>),
   perspective |-> FirstTruthy(<<Field(analysis, "compositional_analysis.perspective"),
                                 Str("frontal")>>),
   style |-> FirstTruthy(<<Field(analysis, "compositional_analysis.style"),
                           Str("photographic")>>)]

extractVisualAnalysis(analysis) ==
  [dominant_colors |-> FirstTruthy(<<Field(analysis, "visual_properties.dominant_colors"),
                                     Arr(<<"#000000", "#ffffff">>)>>),
   contrast_ratio |-> FirstTruthy(<<Field(analysis, "technical_aspects.contrast_ratio"),
                                    Num(5)>>),
   complexity_score |-> FirstTruthy(<<Field(analysis, "technical_aspects.complexity_score"),
                                      Num(5)>>)]

parseVisualAnalysis(analysis) ==
  IF Truthy(Field(analysis, "error")) \/ Truthy(Field(analysis, "fallback"))
  THEN generateEnhancedMockSchema("analysis-fallback")
  ELSE IF \E which \in {"primary", "secondary"} :
            LET x == ElementsSource(analysis, which)
            IN  x.t # "undefined" /\ ~Spreadable(x)
  THEN generateEnhancedMockSchema("parse-error")
  ELSE [elements |->
          [primary |-> extractElements(analysis, "primary",
                                       <<"main subject", "focal point">>),
           secondary |-> extractElements(analysis, "secondary",
                                         <<"background elements", "supporting objects">>)],
        scene |-> extractSceneInfo(analysis),
        composition |-> extractCompositionInfo(analysis),
        visual_analysis |-> extractVisualAnalysis(analysis)]

\* what analyzeImageWithVision returns for a response with content
analysisOf(content) ==
  LET match == jsonMatch(content)
      parsed == IF match = "" THEN [ok |-> FALSE] ELSE JSONparse(match)
  IN  IF parsed.ok THEN parsed.value
      ELSE ("error" :> Str("Failed to parse JSON")) @@ ("raw_content" :> Str(content))
             @@ ("fallback" :> Num(1))

\* (mutant) mapper whose catch block rethrows instead of falling back
mapperRethrows(path, exists, readable, client, backend) ==
  IF ~exists
  THEN [kind |-> "threw", message |-> "Image file not found: " \o path]
  ELSE IF ~readable \/ ~client \/ backend.kind = "unreachable" \/ backend.content = ""
  THEN [kind |-> "threw", message |-> "Error in image analysis"]
  ELSE [kind |-> "returned", schema |-> parseVisualAnalysis(analysisOf(backend.content))]

\* mapper(imagePath): exists and readable are what existsSync and readFileSync
\* find, client is whether getOpenAIClient yields a client, backend is what
\* chat.completions.create does
mapper(path, exists, readable, client, backend) ==
  IF ~exists
  THEN [kind |-> "threw", message |-> "Image file not found: " \o path]
  ELSE IF ~readable \/ ~client \/ backend.kind = "unreachable" \/ backend.content = ""
  THEN [kind |-> "returned", schema |-> generateEnhancedMockSchema(path)]
  ELSE [kind |-> "returned", schema |-> parseVisualAnalysis(analysisOf(backend.content))]

\* validateSchema's view of a Mapper result
shapeOf(sch) ==
  SchemaShape(/\ "elements" \in DOMAIN sch
              /\ Field(sch.elements, "primary").t = "array",
              /\ "scene" \in DOMAIN sch
              /\ Truthy(Field(sch.scene, "emotion")),
              /\ "scene" \in DOMAIN sch
              /\ Field(sch.scene, "colors").t = "array",
              /\ "composition" \in DOMAIN sch
              /\ Truthy(Field(sch.composition, "focus")),
              /\ "visual_analysis" \in DOMAIN sch
              /\ Field(sch.visual_analysis, "dominant_colors").t = "array")

MapperPaths ==
  {imagePath, "/data/Portrait-1.png", "/data/landscape.jpg", "/data/abstract.png"}

Contents ==
  {"", "I cannot analyze this image.", "Here you go: {not json}", "} nothing {",
   "Analysis: {\"mood\":\"calm\"} Done.",
   "{\"colors\":\"red\"}",
   "{\"error\":\"rate limited\"}",
   "{\"element_analysis\":{\"primary\":5}}",
   "{\"visual_properties\":{\"dominant_colors\":[\"#112233\"]}}"}

Backends ==
  {[kind |-> "unreachable", content |-> ""]}
    \cup {[kind |-> "response", content |-> c] : c \in Contents}

InitMapper ==
  /\ IdlePipeline
  /\ dir = NoSub /\ cod = NoSub /\ rnd = NoSub /\ runs = NoSub /\ val = NoSub
  /\ mpr = [on |-> TRUE, openai |-> FALSE, called |-> FALSE, last |-> Undefined]

\* one call of mapper; getOpenAIClient keeps the client it once created
MapperCall ==
  /\ mpr.on
  /\ \E path \in MapperPaths, exists \in BOOLEAN, readable \in BOOLEAN,
        apiKey \in BOOLEAN, backend \in Backends :
       LET client == mpr.openai \/ apiKey
       IN  mpr' = [mpr EXCEPT
             !.called = TRUE,
             !.openai = @ \/ (exists /\ readable /\ apiKey),
             !.last = [imagePath |-> path, exists |-> exists, readable |-> readable,
                       client |-> client, backend |-> backend,
                       result |-> mapper(path, exists, readable, client, backend)]]
  /\ UNCHANGED <<pipeVars, dir, cod, rnd, runs, val>>

NextMapper == MapperCall

SpecMapper == InitMapper /\ [][NextMapper]_vars

(***************************************************************************)
(* validateSchema on schemas of any shape: each of the four parts may be   *)
(* missing, and each field validateSchema reads may be missing, of the     *)
(* wrong type, empty or well formed.                                       *)
(***************************************************************************)
NoFields == [field \in {} |-> Undef]

\* the object with the fields of the record that are not undefined
Object(fields) ==
  [field \in {f \in DOMAIN fields : fields[f].t # "undefined"} |-> fields[field]]

PrimaryValues == {Undef, Str("main subject"), Arr(<<>>), Arr(<<"main subject">>)}
EmotionValues == {Undef, Str(""), Str("calm")}
ColorValues == {Undef, Str("red"), Arr(<<>>), Arr(<<"#000000", "#ffffff">>)}
FocusValues == {Undef, Str("center")}

ElementsParts == {Object([primary |-> primary]) : primary \in PrimaryValues}
SceneParts ==
  {Object([emotion |-> emotion, colors |-> colors]) :
     emotion \in EmotionValues, colors \in ColorValues}
CompositionParts == {Object([focus |-> focus]) : focus \in FocusValues}
VisualParts == {Object([dominant_colors |-> colors]) : colors \in ColorValues}

\* a part that is missing altogether
Missing == [missing |-> TRUE]

\* the schema with the parts given
SchemaOf(elements, scene, composition, visual) ==
  (IF elements = Missing THEN NoFields ELSE [elements |-> elements])
  @@ (IF scene = Missing THEN NoFields ELSE [scene |-> scene])
  @@ (IF composition = Missing THEN NoFields ELSE [composition |-> composition])
  @@ (IF visual = Missing THEN NoFields ELSE [visual_analysis |-> visual])

SchemaInputs ==
  {SchemaOf(elements, scene, composition, visual) :
     elements \in ElementsParts \cup {Missing},
     scene \in SceneParts \cup {Missing},
     composition \in CompositionParts \cup {Missing},
     visual \in VisualParts \cup {Missing}}

InitSchema ==
  /\ IdlePipeline
  /\ dir = NoSub /\ cod = NoSub /\ rnd = NoSub /\ runs = NoSub /\ val = NoSub
  /\ \E sch \in SchemaInputs :
       mpr = [on |-> TRUE, schema |-> sch, validated |-> FALSE,
              validation |-> Undefined]

\* validateSchema(schema)
ValidateSchemaCall ==
  /\ mpr.on /\ ~mpr.validated
  /\ mpr' = [mpr EXCEPT !.validated = TRUE,
                        !.validation = validateSchema(shapeOf(mpr.schema))]
  /\ UNCHANGED <<pipeVars, dir, cod, rnd, runs, val>>

NextSchema == ValidateSchemaCall

SpecSchema == InitSchema /\ [][NextSchema]_vars

(***************************************************************************)
(* schema.ts: validateMotionIR and createBasicTimeline on timelines of any *)
(* shape.  Times are in tenths of a second.                                *)
(***************************************************************************)
ValKeyframe(time) == [time |-> time, properties |-> [opacity |-> 10]]

ValKeyframeLists ==
  {<<>>, <<ValKeyframe(0)>>, <<ValKeyframe(-10), ValKeyframe(40)>>,
   <<ValKeyframe(0), ValKeyframe(70)>>}

ValLayers ==
  {[startTime |-> s, duration |-> d, keyframes |-> k] :
     s \in {0, 20}, d \in {30, 60}, k \in ValKeyframeLists}

ValLayerLists ==
  {<<>>} \cup {<<l>> : l \in ValLayers}
    \cup {<<l, [startTime |-> 0, duration |-> 30,
                keyframes |-> <<ValKeyframe(10), ValKeyframe(80)>>]>> :
          l \in ValLayers}

ValTrackLists ==
  {<<>>} \cup {<<[layers |-> ls]>> : ls \in ValLayerLists}
    \cup {<<[layers |-> ls],
            [layers |-> <<[startTime |-> 10, duration |-> 50,
                           keyframes |-> <<ValKeyframe(60)>>]>>]>> :
          ls \in ValLayerLists}

ValAsset == [id |-> "main-image", type |-> "image", src |-> imagePath]

\* timelines with and without an assets field and a tracks field
Timelines ==
  LET metadata == {[metadata |-> [duration |-> d]] : d \in {30, 50}}
      assets == {<<>>, <<ValAsset>>}
      withAssets == metadata \cup {("assets" :> a) @@ m : a \in assets, m \in metadata}
  IN  withAssets \cup {("tracks" :> t) @@ m : t \in ValTrackLists, m \in withAssets}

BasicDurations == {-1, 0, 5, 30, 45}   \* seconds
BasicSizes == {<<1920, 1080>>, <<1280, 720>>, <<0, 0>>}
BasicFps == {30, 60}

InitValidate ==
  /\ IdlePipeline
  /\ dir = NoSub /\ cod = NoSub /\ rnd = NoSub /\ runs = NoSub /\ mpr = NoSub
  /\ val = [on |-> TRUE, called |-> FALSE, basic |-> FALSE, now |-> 0,
            timeline |-> Undefined, result |-> Undefined]

ValidateClockTick ==
  /\ val.on
  /\ val.now = 0
  /\ val' = [val EXCEPT !.now = 1]
  /\ UNCHANGED <<pipeVars, dir, cod, rnd, runs, mpr>>

\* validateMotionIR(timeline) for a timeline built elsewhere
ValidateTimeline ==
  /\ val.on
  /\ \E timeline \in Timelines :
       val' = [val EXCEPT !.called = TRUE, !.basic = FALSE,
                          !.timeline = timeline,
                          !.result = validateMotionIR(timeline)]
  /\ UNCHANGED <<pipeVars, dir, cod, rnd, runs, mpr>>

\* validateMotionIR(createBasicTimeline(duration, width, height, fps))
ValidateBasicTimeline ==
  /\ val.on
  /\ \E duration \in BasicDurations, size \in BasicSizes, fps \in BasicFps :
       LET timeline == createBasicTimeline(duration, size[1], size[2], fps, val.now)
       IN  val' = [val EXCEPT !.called = TRUE, !.basic = TRUE,
                              !.timeline = timeline,
                              !.result = validateMotionIR(timeline)]
  /\ UNCHANGED <<pipeVars, dir, cod, rnd, runs, mpr>>

NextValidate == ValidateClockTick \/ ValidateTimeline \/ ValidateBasicTimeline

SpecValidate == InitValidate /\ [][NextValidate]_vars

(***************************************************************************)
(* Properties of the orchestrator.                                         *)
(***************************************************************************)
Max(a, b) == IF a >= b THEN a ELSE b
Last(seq) == seq[Len(seq)]
Returned(s) == hist[s] # <<>> /\ Last(hist[s]) = "ok"
FinallyFailed(s) == pc = "thrown" /\ outcome.failedStage = s
StageIndex(s) == CHOOSE i \in 1..Len(Stages) : Stages[i] = s

\* C1 as stated: no stage operation is invoked more than maxRetries times,
\* whatever the configuration.
C1_AtMostMaxRetries ==
  \A s \in StageSet : calls[s] <= config.maxRetries

\* C1 amended: a stage operation is invoked at most max(1, maxRetries) times
\* (the first attempt is made whatever maxRetries is), only once when
\* enableFallbacks is off, and when its last allowed attempt has failed the
\* run has failed with that stage's error.
C1_AtMostMaxRetriesOrOnce ==
  \A s \in StageSet :
    /\ calls[s] <= Max(1, config.maxRetries)
    /\ ~config.enableFallbacks => calls[s] <= 1
    /\ ( /\ hist[s] # <<>>
         /\ Last(hist[s]) = "fail"
         /\ Len(hist[s]) >= (IF config.enableFallbacks
                             THEN Max(1, config.maxRetries) ELSE 1) )
       => /\ FinallyFailed(s)
          /\ outcome.kind = "error"
          /\ outcome.message \in
               {CatchBlock(m).message : m \in StageErrors(s)}

C1_Witness ==
  /\ config.maxRetries = 3 /\ config.enableFallbacks
  /\ calls["RENDERER"] = 3
  /\ FinallyFailed("RENDERER")

StageCategory(s) ==
  CASE s \in {"MAPPER", "SCHEMA_VALIDATION"} -> "image_analysis"
    [] s = "DIRECTOR" -> "motion_generation"
    [] s = "CODER" -> "composition"
    [] s = "RENDERER" -> "rendering"

\* C3: the category of the surfaced error is the failed stage's category, and
\* unknown is surfaced only for a failure of none of the stages.
C3_CategoryByStage ==
  (pc = "thrown" /\ outcome.failedStage \in StageSet \cup {"SCHEMA_VALIDATION"})
  => outcome.category = StageCategory(outcome.failedStage)

\* C4: a run ends with a complete result bundle, and then every stage and the
\* URL generation succeeded, or with one error and no result and no URL; what
\* the caller received never changes afterwards.
C4_ResultXorError ==
  /\ [] /\ outcome.kind \in {"pending", "result", "error"}
        /\ (outcome.kind = "result") = (pc = "returned")
        /\ (outcome.kind = "error") = (pc = "thrown")
        /\ outcome.kind = "result" =>
             /\ outcome.videoPath = outputPath
             /\ outcome.videoUrl = "/api/videos/output-1.mp4"
             /\ outcome.metadata # Undefined
             /\ outcome.motionIR = motionIR /\ motionIR # Undefined
             /\ outcome.processingTime >= 0
             /\ outcome.message = None
             /\ \A s \in StageSet : Returned(s)
        /\ outcome.kind = "error" =>
             /\ outcome.message # None
             /\ outcome.videoPath = None /\ outcome.videoUrl = None
             /\ outcome.metadata = Undefined /\ outcome.motionIR = Undefined
  /\ [][outcome.kind # "pending" => outcome' = outcome]_vars

C4_Witness ==
  /\ pc = "returned" /\ outcome.kind = "result"
  /\ \E s \in StageSet : Len(hist[s]) > 1

\* C8: with maxRetries = 3 and fallbacks on, a stage that failed twice and then
\* succeeded has handed over to the next stage, is not what a failed run failed
\* on, and at least 1000 + 2000 ms have elapsed since the run started.
C8_ThirdAttemptSucceeds ==
  \A s \in StageSet :
    (config.maxRetries = 3 /\ config.enableFallbacks
      /\ hist[s] = <<"fail", "fail", "ok">>)
    => /\ clock - startTime >= 1000 + 2000
       /\ pc = "returned" => outcome.processingTime >= 1000 + 2000
       /\ ~FinallyFailed(s)
       /\ \/ pc \in {"urlgen", "returned", "thrown"}
          \/ StageIndex(stage) > StageIndex(s)
       /\ (pc \in {"returned", "thrown"} /\ \A o \in StageSet : Returned(o))
          => \/ pc = "returned"
             \/ outcome.failedStage \notin StageSet

C8_Witness ==
  /\ config.maxRetries = 3 /\ config.enableFallbacks
  /\ hist["CODER"] = <<"fail", "fail", "ok">>
  /\ pc = "returned"
  /\ outcome.processingTime >= 1000 + 2000

\* the schema is one validateSchema has to reject
Malformed(sch) ==
  ~(sch.primaryIsArray /\ sch.emotion /\ sch.colorsIsArray /\ sch.focus
    /\ sch.dominantIsArray)

\* C9: with enableValidation a malformed Mapper schema fails the run at once:
\* the Mapper is not invoked again and no later stage is invoked; without
\* enableValidation the run goes on to the Director with that schema.
C9_SchemaGate ==
  (Returned("MAPPER") /\ Malformed(schema))
  => IF config.enableValidation
     THEN /\ FinallyFailed("SCHEMA_VALIDATION")
          /\ calls["MAPPER"] = Len(hist["MAPPER"])
          /\ calls["DIRECTOR"] = 0 /\ calls["CODER"] = 0 /\ calls["RENDERER"] = 0
          /\ outcome.kind = "error"
     ELSE /\ ~FinallyFailed("SCHEMA_VALIDATION")
          /\ stage # "MAPPER"
          /\ calls["MAPPER"] = Len(hist["MAPPER"])

C9_Witness ==
  /\ config.enableValidation /\ config.enableFallbacks /\ config.maxRetries = 3
  /\ Returned("MAPPER") /\ Malformed(schema)
  /\ FinallyFailed("SCHEMA_VALIDATION")
  /\ calls["MAPPER"] = 2

C9_WitnessNoValidation ==
  /\ ~config.enableValidation
  /\ Returned("MAPPER") /\ Malformed(schema)
  /\ calls["DIRECTOR"] > 0

WithoutCreatedAt(result) == [result EXCEPT !.timeline.metadata.createdAt = ""]

C6_DirectorTimelineValid ==
  dir.on =>
    \A i \in 1..Len(dir.results) :
      LET timeline == dir.results[i].timeline
          duration == timeline.metadata.duration
      IN  /\ dir.results[i].validation = [isValid |-> TRUE, errors |-> <<>>]
          /\ Len(timeline.assets) = 1
          /\ Len(timeline.tracks) = 1
          /\ \A tl \in LayerIndices(timeline) :
               LET layer == timeline.tracks[tl[1]].layers[tl[2]]
               IN  /\ layer.startTime + layer.duration <= duration
                   /\ \A k \in 1..Len(layer.keyframes) :
                        /\ layer.keyframes[k].time >= 0
                        /\ layer.keyframes[k].time <= duration

\* director returned a 4 s timeline with a secondary layer and zoom keyframes,
\* the second at 2.8 s
C6_Witness ==
  /\ dir.on
  /\ Len(dir.results) >= 1
  /\ dir.results[1].timeline.metadata.duration = 40
  /\ Len(dir.results[1].timeline.tracks[1].layers) = 2
  /\ Len(dir.results[1].timeline.tracks[1].layers[1].keyframes) = 2
  /\ dir.results[1].timeline.tracks[1].layers[1].keyframes[2].time = 28

(***************************************************************************)
(* Properties of the Coder.                                                *)
(***************************************************************************)
\* the keyframes are in strictly increasing time order
Ordered(keyframes) ==
  \A k \in 1..(Len(keyframes) - 1) : keyframes[k].time < keyframes[k + 1].time

\* C7: at a query time strictly between two consecutive keyframes, the style
\* calculateAnimatedStyle returns is the per-property interpolation of the
\* two, eased by the earlier keyframe's easing; for keyframes {time 0,
\* opacity 0} and {time 1, opacity 1, linear}, the style at 0.5 has opacity 0.5.
C7_InterpolatesBetweenKeyframes ==
  (cod.on /\ cod.called /\ Ordered(cod.layer.keyframes)) =>
    LET keyframes == cod.layer.keyframes
        t == cod.currentTime
    IN  /\ \A k \in 1..(Len(keyframes) - 1) :
             (keyframes[k].time < t /\ t < keyframes[k + 1].time) =>
               cod.style =
                 keyframeToStyle(
                   interpolateKeyframes(
                     keyframes[k], keyframes[k + 1],
                     applyEasing((1000 * (t - keyframes[k].time))
                                   \div (keyframes[k + 1].time - keyframes[k].time),
                                 Easing(keyframes[k]))))
        /\ (keyframes = <<Opacity(0, 0),
                          [time |-> 10, properties |-> [opacity |-> 10],
                           easing |-> "linear"]>>
            /\ t = 5)
           => cod.style = [opacity |-> 5]

(***************************************************************************)
(* Properties of the renderer.                                             *)
(***************************************************************************)
\* C10: once more than the configured timeout has passed since the render
\* began, the render process is not running any more (it exited or was
\* terminated) and the render attempt is not in progress any more.
C10_BoundedByConfiguredTimeout ==
  (rnd.on
     /\ rnd.elapsed > ConfiguredTimeout(rnd.pipelineConfig,
                                        rnd.pipelineConfig.renderConfig))
    => /\ rnd.proc # "running"
       /\ ~(rnd.phase = "awaiting" /\ rnd.promise = "pending")

C11_WitnessMissingFile ==
  /\ rnd.on /\ rnd.timer = "cleared" /\ rnd.code = 0 /\ rnd.file = "missing"
  /\ rnd.outcome.kind = "threw"
  /\ includes(rnd.outcome.value, "process succeeded but output file not found")

\* the pairs <<i, j>> of renders where i was under way when j started
ConcurrentPairs ==
  {p \in (1..Len(runs.started)) \X (1..Len(runs.started)) :
     p[1] \in runs.started[p[2]].during}

\* C12: two renders that execute concurrently never use the same output
\* video path, nor the same composition or image artifact path, even when
\* they start within the same millisecond (their random ids being different).
C12_DistinctPaths ==
  runs.on =>
    \A p \in ConcurrentPairs :
      LET a == runs.started[p[1]]
          b == runs.started[p[2]]
      IN  a.renderId # b.renderId =>
            /\ a.videoPath # b.videoPath
            /\ a.compositionFilePath # b.compositionFilePath
            /\ (a.tempImagePath # "" => a.tempImagePath # b.tempImagePath)

\* the response has no match for the pattern, or one JSON.parse rejects
NoParseableJSON(content) ==
  jsonMatch(content) = "" \/ ~JSONparse(jsonMatch(content)).ok

\* C13: when the image file exists and the analysis backend is unreachable,
\* there is no API key (so no client), or the response holds no parseable
\* JSON, mapper does not throw: it returns the fallback schema, and
\* validateSchema finds that schema valid, with no errors.
C13_MapperFailsOpen ==
  (mpr.on /\ mpr.called) =>
    LET call == mpr.last
    IN  (call.exists /\ (\/ ~call.client
                         \/ call.backend.kind = "unreachable"
                         \/ NoParseableJSON(call.backend.content))) =>
          /\ call.result.kind = "returned"
          /\ call.result.schema \in
               {generateEnhancedMockSchema(call.imagePath),
                generateEnhancedMockSchema("analysis-fallback")}
          /\ validateSchema(shapeOf(call.result.schema)) = [isValid |-> TRUE, errors |-> <<>>]

\* a response in prose around braces that are not JSON
C13_Witness ==
  /\ mpr.on /\ mpr.called
  /\ mpr.last.exists /\ mpr.last.readable /\ mpr.last.client
  /\ mpr.last.backend = [kind |-> "response", content |-> "Here you go: {not json}"]
  /\ mpr.last.result.kind = "returned"
  /\ mpr.last.result.schema = generateEnhancedMockSchema("analysis-fallback")

\* the backend cannot be reached
C13_WitnessUnreachable ==
  /\ mpr.on /\ mpr.called
  /\ mpr.last.exists /\ mpr.last.readable /\ mpr.last.client
  /\ mpr.last.backend.kind = "unreachable"
  /\ mpr.last.imagePath = "/data/landscape.jpg"
  /\ mpr.last.result.kind = "returned"
  /\ Len(mpr.last.result.schema.scene.depth_layers.v) = 4

\* the messages of the invariants a timeline violates
Violations(timeline) ==
  (IF "assets" \notin DOMAIN timeline \/ Len(timeline.assets) = 0
   THEN {"Timeline must have at least one asset"} ELSE {})
  \cup (IF "tracks" \notin DOMAIN timeline \/ Len(timeline.tracks) = 0
        THEN {"Timeline must have at least one track"} ELSE {})
  \cup (IF "tracks" \in DOMAIN timeline
           /\ \E tl \in LayerIndices(timeline) :
                LET layer == timeline.tracks[tl[1]].layers[tl[2]]
                IN  layer.startTime + layer.duration > timeline.metadata.duration
        THEN {"Some layers extend beyond timeline duration"} ELSE {})
  \cup (IF "tracks" \in DOMAIN timeline
        THEN {KeyframeError(tlk) : tlk \in
                {x \in KeyframeIndices(timeline) :
                   LET time == timeline.tracks[x[1]].layers[x[2]].keyframes[x[3]].time
                   IN  time < 0 \/ time > timeline.metadata.duration}}
        ELSE {})

\* C14: validateMotionIR never throws, whatever the timeline, one without an
\* assets or a tracks field included, and its errors list holds every
\* violated invariant: the missing asset, the missing track, a layer past
\* the duration, and each out-of-range keyframe.
C14_NeverThrowsListsAll ==
  (val.on /\ val.called) =>
    /\ "threw" \notin DOMAIN val.result
    /\ Violations(val.timeline) \subseteq
         {val.result.errors[i] : i \in 1..Len(val.result.errors)}

\* C20 (as claimed): validateMotionIR on the result of createBasicTimeline,
\* for any duration, width, height and fps and with nothing added, returns
\* isValid = false with exactly two errors, the missing asset and the
\* missing track.
C20_BasicTimelineTwoErrors ==
  (val.on /\ val.called /\ val.basic) =>
    val.result = [isValid |-> FALSE,
                  errors |-> <<"Timeline must have at least one asset",
                               "Timeline must have at least one track">>]

\* C20 (amended): the two errors are the whole list for every width, height
\* and fps and every duration that is not negative; for a negative duration
\* the list has a third entry, the layers-beyond-duration error.
C20_BasicTimelineTwoErrorsUnlessNegative ==
  (val.on /\ val.called /\ val.basic) =>
    val.result = [isValid |-> FALSE,
                  errors |-> <<"Timeline must have at least one asset",
                               "Timeline must have at least one track">>
                             \o (IF val.timeline.metadata.duration < 0
                                 THEN <<"Some layers extend beyond timeline duration">>
                                 ELSE <<>>)]

C20_Witness ==
  /\ val.on /\ val.called /\ val.basic
  /\ val.timeline.metadata.duration = 450 /\ val.timeline.metadata.width = 0
  /\ val.timeline.metadata.createdAt = toISOString(1)
  /\ ~val.result.isValid /\ Len(val.result.errors) = 2

\* the captures (<<first, last>> of the number) of all mentions of a prompt
Mentions(prompt) ==
  {c \in {durationPatternAt(n[1], prompt, n[2]) : n \in (1..4) \X (1..Len(prompt))} :
     /\ c[1] > 0
     /\ c[1] = 1 \/ CharAt(prompt, c[1] - 1) \notin DigitChars}

FirstMentionSeconds(prompt) ==
  CHOOSE r \in
    {IF valid = {} THEN 5
     ELSE LET first == CHOOSE c \in valid : \A d \in valid : c[1] <= d[1]
          IN  parseInt(SubSeq(prompt, first[1], first[2])) :
     valid \in {{c \in Mentions(prompt) :
                   LET N == parseInt(SubSeq(prompt, c[1], c[2]))
                   IN  N > 0 /\ N <= 30}}} : TRUE

\* C15: for every prompt the director sets metadata.duration to
\* the N of the first duration mention in the prompt ("<N> seconds",
\* "<N> sec", "duration: <N>", "for <N> seconds") that has 0 < N <= 30, and
\* to 5 when there is no such mention; it is always an integer in 1..30.
C15_DurationOfFirstMention ==
  dir.on =>
    \A i \in 1..Len(dir.results) :
      /\ dir.results[i].timeline.metadata.duration = 10 * FirstMentionSeconds(dir.prompt)
      /\ dir.results[i].timeline.metadata.duration \in {10 * N : N \in 1..30}

\* C16: the camera type of a generated timeline is 2.5D exactly when the
\* classified style is cinematic or the schema has more than 2 depth layers,
\* and 2D otherwise, never 3D; the prompt "make this cinematic, 8 seconds"
\* yields duration 8, style cinematic and camera type 2.5D.
C16_CameraType ==
  dir.on =>
    \A i \in 1..Len(dir.results) :
      LET timeline == dir.results[i].timeline
          cinematic == analyzePrompt(dir.prompt).style = "cinematic"
      IN  /\ timeline.camera.type \in {"2D", "2.5D"}
          /\ timeline.camera.type = "2.5D"
               <=> (cinematic \/ Len(dir.schema.scene.depth_layers) > 2)
          /\ dir.prompt = "make this cinematic, 8 seconds" =>
               /\ timeline.metadata.duration = 80
               /\ cinematic
               /\ timeline.camera.type = "2.5D"

\* the example prompt, on a schema with two depth layers
C16_Witness ==
  /\ dir.on /\ dir.prompt = "make this cinematic, 8 seconds"
  /\ Len(dir.schema.scene.depth_layers) = 2
  /\ Len(dir.results) > 0
  /\ dir.results[1].timeline.camera.type = "2.5D"
  /\ dir.results[1].timeline.metadata.duration = 80

\* two depth layers and a style that is not cinematic: 2D
C16_Witness2D ==
  /\ dir.on /\ dir.prompt = "slow zoom in"
  /\ Len(dir.schema.scene.depth_layers) = 2
  /\ Len(dir.results) > 0
  /\ dir.results[1].timeline.camera.type = "2D"

\* C17: the main image layer of a generated timeline has exactly two
\* keyframes, scale (1,1) at t = 0 and scale (1.2,1.2) at t = 0.7 * duration,
\* when the classified movement is zoom; exactly two, position (0,0) at t = 0
\* and (100,0) at t = 0.6 * duration, when it is pan; and none for every
\* other movement; "zoom in slowly" yields duration 5, movement zoom and the
\* two scale keyframes.
C17_MainLayerKeyframes ==
  dir.on =>
    \A i \in 1..Len(dir.results) :
      LET timeline == dir.results[i].timeline
          duration == timeline.metadata.duration
          keyframes == timeline.tracks[1].layers[1].keyframes
          movement == analyzePrompt(dir.prompt).movement
      IN  /\ timeline.tracks[1].layers[1].id = "main-image-layer"
          /\ movement = "zoom" =>
               /\ Len(keyframes) = 2
               /\ keyframes[1].time = 0
               /\ keyframes[1].properties.scale = [x |-> 10, y |-> 10]
               /\ 10 * keyframes[2].time = 7 * duration
               /\ keyframes[2].properties.scale = [x |-> 12, y |-> 12]
          /\ movement = "pan" =>
               /\ Len(keyframes) = 2
               /\ keyframes[1].time = 0
               /\ keyframes[1].properties.position = [x |-> 0, y |-> 0]
               /\ 10 * keyframes[2].time = 6 * duration
               /\ keyframes[2].properties.position = [x |-> 100, y |-> 0]
          /\ movement \notin {"zoom", "pan"} => Len(keyframes) = 0
          /\ dir.prompt = "zoom in slowly" => (duration = 50 /\ movement = "zoom")

C17_Witness ==
  /\ dir.on /\ dir.prompt = "zoom in slowly"
  /\ Len(dir.results) > 0
  /\ Len(dir.results[1].timeline.tracks[1].layers[1].keyframes) = 2
  /\ dir.results[1].timeline.tracks[1].layers[1].keyframes[2].time = 35

C17_WitnessPan ==
  /\ dir.on /\ dir.prompt = "cinematic pan for 20 seconds"
  /\ Len(dir.results) > 0
  /\ dir.results[1].timeline.tracks[1].layers[1].keyframes[2].time = 120

C18_WitnessTwo ==
  /\ dir.on /\ dir.prompt = "uplifting movie"
  /\ Len(dir.results) > 0
  /\ Len(dir.results[1].timeline.globalEffects) = 2

\* the keyframes are in time order
InTimeOrder(keyframes) ==
  \A k \in 1..(Len(keyframes) - 1) : keyframes[k].time <= keyframes[k + 1].time

\* the style has the values of the keyframe, and no others
HoldsValuesOf(style, keyframe) ==
  LET p == keyframe.properties
  IN  /\ Has(style, "opacity") <=> Has(p, "opacity")
      /\ Has(p, "opacity") => style.opacity = p.opacity
      /\ Has(style, "positionX") <=> Has(p, "position")
      /\ Has(style, "positionY") <=> Has(p, "position")
      /\ Has(p, "position") =>
           (style.positionX = p.position.x /\ style.positionY = p.position.y)
      /\ Has(style, "scaleX") <=> Has(p, "scale")
      /\ Has(style, "scaleY") <=> Has(p, "scale")
      /\ Has(p, "scale") => (style.scaleX = p.scale.x /\ style.scaleY = p.scale.y)
      /\ Has(style, "transform") <=> Has(p, "rotation")
      /\ Has(p, "rotation") =>
           style.transform = "rotate(" \o ToString(p.rotation.z) \o "deg)"
      /\ Has(style, "filter") <=> Has(p, "filter")
      /\ Has(p, "filter") => style.filter = p.filter
      /\ Has(style, "color") <=> Has(p, "color")
      /\ Has(p, "color") => style.color = p.color
      /\ DOMAIN style \subseteq {"opacity", "positionX", "positionY", "scaleX",
                                 "scaleY", "transform", "filter", "color"}

\* C19: for a layer whose keyframes are in time order, the style
\* calculateAnimatedStyle computes is empty at any query time before the
\* first keyframe, and has the last keyframe's values at any query time at
\* or after the last keyframe: the values are held, not extrapolated.
C19_EmptyBeforeHeldAfter ==
  (cod.on /\ cod.called /\ Len(cod.layer.keyframes) > 0
     /\ InTimeOrder(cod.layer.keyframes)) =>
    LET keyframes == cod.layer.keyframes
    IN  /\ cod.currentTime < keyframes[1].time => DOMAIN cod.style = {}
        /\ cod.currentTime >= keyframes[Len(keyframes)].time =>
             HoldsValuesOf(cod.style, keyframes[Len(keyframes)])

\* past the end of a fade in and out
C19_Witness ==
  /\ cod.on /\ cod.called
  /\ cod.layer.keyframes = <<Opacity(0, 0), Opacity(5, 10), Opacity(10, 0)>>
  /\ cod.currentTime = 12
  /\ cod.style = [opacity |-> 0]

\* before the only keyframe
C19_WitnessBefore ==
  /\ cod.on /\ cod.called
  /\ cod.layer.keyframes = <<Opacity(5, 8)>>
  /\ cod.currentTime = 4
  /\ DOMAIN cod.style = {}

\* the stage operation of s has been invoked and has not yet returned or thrown
InProgress(s) == calls[s] > Len(hist[s])

\* the stages whose operation is in progress
StagesInProgress == {s \in StageSet : InProgress(s)}

(* C21: the stages are started strictly in the order Mapper, Director,     *)
(* Coder, Renderer, URL generation: a stage is invoked only after the one  *)
(* before it has succeeded, URL generation only after all four, no two     *)
(* stages are in progress at once, and once a stage has finally failed no  *)
(* stage is ever invoked again and URL generation is never reached.        *)
C21_StagesInOrder ==
  /\ [](\A i \in 2..Len(Stages) : calls[Stages[i]] > 0 => Returned(Stages[i - 1]))
  /\ [](pc \in {"urlgen", "returned"} =>
          /\ \A s \in StageSet : Returned(s)
          /\ StagesInProgress = {})
  /\ [](Cardinality(StagesInProgress) <= 1)
  /\ [](\A s \in StageSet : InProgress(s) => (pc = "running" /\ stage = s))
  /\ [][\A i \in 1..Len(Stages) :
          calls'[Stages[i]] # calls[Stages[i]] =>
            \A j \in (i + 1)..Len(Stages) : calls[Stages[j]] = 0]_vars
  /\ [][pc = "thrown" => (pc' = "thrown" /\ calls' = calls /\ hist' = hist)]_vars

\* C21 witness: all four stages succeeded in turn, the Mapper at its second attempt
C21_Witness ==
  /\ pc = "urlgen"
  /\ hist["MAPPER"] = <<"fail", "ok">>
  /\ \A i \in 2..Len(Stages) : hist[Stages[i]] = <<"ok">>

\* C21 witness: the Coder finally failed and the Renderer was never invoked
C21_WitnessFailed ==
  /\ FinallyFailed("CODER")
  /\ Returned("MAPPER") /\ Returned("DIRECTOR")
  /\ calls["CODER"] = 2 /\ calls["RENDERER"] = 0

(* C22: within one stage attempt k+1 is started only after attempt k has   *)
(* failed and a backoff of at least 1000 * k ms has passed since: an       *)
(* invocation finds every earlier attempt of the stage finished, the last  *)
(* of them failed, and carries the attempt number calls + 1; the attempt   *)
(* number goes from k to k+1 only by the backoff wait that follows failure *)
(* k, during which the clock advances by 1000 * k or more; two attempts of *)
(* a stage are never in progress at once.                                  *)
C22_AttemptsSequential ==
  /\ [](\A s \in StageSet : calls[s] - Len(hist[s]) \in {0, 1})
  /\ [][\A s \in StageSet :
          calls'[s] # calls[s] =>
            /\ calls'[s] = calls[s] + 1
            /\ stage = s /\ attempt = calls[s] + 1
            /\ Len(hist[s]) = calls[s]
            /\ \A k \in 1..Len(hist[s]) : hist[s][k] = "fail"]_vars
  /\ [][(attempt' # attempt /\ attempt' # 1) =>
          /\ pc = "backoff" /\ stage' = stage
          /\ attempt' = attempt + 1
          /\ Len(hist[stage]) = attempt /\ Last(hist[stage]) = "fail"
          /\ clock' - clock >= 1000 * attempt]_vars

\* C22 witness: the third attempt of the Director runs, 1000 + 2000 ms after the first
C22_Witness ==
  /\ pc = "running" /\ stage = "DIRECTOR" /\ attempt = 3
  /\ calls["DIRECTOR"] = 3 /\ hist["DIRECTOR"] = <<"fail", "fail">>
  /\ clock - startTime = 3000

(* C23: with enableFallbacks false every stage operation that is reached   *)
(* is invoked exactly once whatever maxRetries is: there is no backoff     *)
(* wait and no second attempt, and the first failure of a stage is the     *)
(* error generateVideo fails with.                                         *)
C23_NoFallbacksOnce ==
  ~config.enableFallbacks =>
    /\ \A s \in StageSet : calls[s] <= 1
    /\ pc # "backoff" /\ attempt <= 1
    /\ clock - startTime < 1000
    /\ \A s \in StageSet :
         /\ Returned(s) => (calls[s] = 1 /\ hist[s] = <<"ok">>)
         /\ (hist[s] # <<>> /\ Last(hist[s]) = "fail") =>
              /\ hist[s] = <<"fail">> /\ calls[s] = 1
              /\ FinallyFailed(s)
              /\ outcome.kind = "error"

\* C23 witness: maxRetries 3, fallbacks off, the Renderer's first failure ends the run
C23_Witness ==
  /\ ~config.enableFallbacks /\ config.maxRetries = 3
  /\ FinallyFailed("RENDERER")
  /\ \A s \in StageSet : calls[s] = 1

\* the prompt argument is missing, empty or made of white space only
BlankPrompt == \A i \in 1..Len(input.prompt) : CharAt(input.prompt, i) \in Whitespace

\* the image path argument is missing or names no existing file
NoImage == input.imagePath \in {"", "/data/missing.png"}

(* C30: called with a missing or nonexistent image path, or with an empty  *)
(* or whitespace-only prompt, generateVideo throws before anything else    *)
(* happens: no stage operation is ever invoked, there is no attempt, no    *)
(* retry and no backoff wait, and the error is the input check's own.      *)
C30_BadInputThrowsFirst ==
  (pc # "idle" /\ (NoImage \/ BlankPrompt)) =>
    /\ pc \in {"check", "thrown"}
    /\ \A s \in StageSet : calls[s] = 0 /\ hist[s] = <<>>
    /\ stage = None /\ attempt = 0
    /\ clock = startTime
    /\ pc = "thrown" =>
         /\ outcome.kind = "error"
         /\ outcome.failedStage = "INPUT"
         /\ outcome.message =
              IF NoImage
              THEN "Invalid image path: " \o
                     (IF input.imagePath = "" THEN "undefined" ELSE input.imagePath)
              ELSE "Prompt cannot be empty"

\* C30 witness: a whitespace-only prompt with a good image is rejected
C30_Witness ==
  /\ pc = "thrown"
  /\ input.imagePath = imagePath /\ input.prompt = " \t\n "
  /\ outcome.message = "Prompt cannot be empty"
  /\ \A s \in StageSet : calls[s] = 0

\* C30 witness: a path that names no file is rejected
C30_WitnessNoFile ==
  /\ pc = "thrown"
  /\ input.imagePath = "/data/missing.png"
  /\ outcome.message = "Invalid image path: /data/missing.png"

\* generateVideo has completed: it returned a result or threw an error
Completed == pc \in {"returned", "thrown"}

(* C29: provided every invoked stage operation returns or throws, every    *)
(* call of generateVideo completes, with a result or with an error, and    *)
(* stays completed; on the way each retry raises the attempt number by     *)
(* one, the number of the attempts of a stage never exceeds                *)
(* max(1, maxRetries), and a stage that has succeeded is not invoked again.*)
C29_Terminates ==
  /\ <>[](Completed /\ outcome.kind \in {"result", "error"})
  /\ [][(pc = "backoff" /\ pc' # "backoff") => attempt' = attempt + 1]_vars
  /\ [](attempt <= Max(1, config.maxRetries))
  /\ [][\A s \in StageSet : Returned(s) => calls'[s] = calls[s]]_vars

\* C29 witness: a run that used up three attempts of the Renderer has completed
C29_Witness ==
  /\ Completed
  /\ config.maxRetries = 3
  /\ hist["RENDERER"] = <<"fail", "fail", "fail">>
  /\ outcome.kind = "error"

\* the prompt from its i-th character on, capitals replaced by small letters
RECURSIVE SmallLetters(_, _)
SmallLetters(prompt, i) ==
  IF i > Len(prompt) THEN ""
  ELSE LowerChar(CharAt(prompt, i)) \o SmallLetters(prompt, i + 1)

\* the word occurs in the text
Occurs(word, text) ==
  \E i \in 1..(Len(text) - Len(word) + 1) : SubSeq(text, i, i + Len(word) - 1) = word

\* the keyword groups of the three axes, in the order they are tried
StyleGroups ==
  <<[label |-> "cinematic", words |-> {"cinematic", "movie", "film"}],
    [label |-> "dynamic", words |-> {"dynamic", "energetic", "fast"}],
    [label |-> "dramatic", words |-> {"dramatic", "intense", "powerful"}],
    [label |-> "minimal", words |-> {"minimal", "simple", "clean"}]>>

MovementGroups ==
  <<[label |-> "pan", words |-> {"pan", "panorama"}],
    [label |-> "zoom", words |-> {"zoom", "push in", "zoom in"}],
    [label |-> "dolly", words |-> {"dolly", "slide", "move"}],
    [label |-> "orbit", words |-> {"orbit", "rotate", "spin"}]>>

MoodGroups ==
  <<[label |-> "energetic", words |-> {"energetic", "exciting", "vibrant"}],
    [label |-> "mysterious", words |-> {"mysterious", "dark", "shadow"}],
    [label |-> "uplifting", words |-> {"uplifting", "bright", "positive"}],
    [label |-> "tense", words |-> {"tense", "intense", "urgent"}]>>

EffectWords ==
  {"fade", "fade in", "fade out", "blur", "depth of field", "grain", "film grain",
   "color grade", "color grading"}

\* the groups of an axis that have a keyword in the text
Matching(groups, text) ==
  {g \in 1..Len(groups) : \E w \in groups[g].words : Occurs(w, text)}

\* the label of the first matching group of an axis, or the axis' default
FirstGroup(groups, text, default) ==
  CHOOSE r \in
    {IF m = {} THEN default
     ELSE groups[CHOOSE g \in m : \A h \in m : g <= h].label :
     m \in {Matching(groups, text)}} : TRUE

\* the text has no keyword of any axis and no effect keyword
NoKeyword(text) ==
  /\ Matching(StyleGroups, text) = {}
  /\ Matching(MovementGroups, text) = {}
  /\ Matching(MoodGroups, text) = {}
  /\ \A w \in EffectWords : ~Occurs(w, text)

(* C24: the classification of a prompt gives each of style, movement and   *)
(* mood the label of the first keyword group of its own axis, in the fixed *)
(* order, that has a keyword in the prompt, letter case aside, whatever    *)
(* the other axes match; a prompt with no keyword at all is gentle, static *)
(* and calm with no effect tag, and its timeline has no camera movement.   *)
C24_FirstGroupPerAxis ==
  dir.on =>
    \A i \in 1..Len(dir.results), direction \in {analyzePrompt(dir.prompt)},
       text \in {SmallLetters(dir.prompt, 1)} :
      /\ direction.style = FirstGroup(StyleGroups, text, "gentle")
      /\ direction.movement = FirstGroup(MovementGroups, text, "static")
      /\ direction.mood = FirstGroup(MoodGroups, text, "calm")
      /\ NoKeyword(text) =>
           /\ direction = [style |-> "gentle", movement |-> "static",
                           mood |-> "calm", effects |-> <<>>]
           /\ dir.results[i].timeline.camera.movements = <<>>

\* C24 witness: every axis has two matching groups, in capitals and out of order
C24_Witness ==
  /\ dir.on /\ Len(dir.results) > 0
  /\ dir.prompt = "Dramatic FILM, zoom then PAN, dark but exciting"
  /\ analyzePrompt(dir.prompt).style = "cinematic"
  /\ analyzePrompt(dir.prompt).mood = "energetic"
  /\ dir.results[1].timeline.camera.movements[1].type = "pan"

\* C24 witness: a prompt with no keyword
C24_WitnessNoKeyword ==
  /\ dir.on /\ Len(dir.results) > 0
  /\ dir.prompt = "a calm scene"
  /\ NoKeyword(SmallLetters(dir.prompt, 1))
  /\ dir.results[1].timeline.camera.movements = <<>>

(* C25: camera.movements of a generated timeline is empty when the         *)
(* classified movement is static; otherwise it holds exactly one movement, *)
(* of the classified type, with startTime 0.5 s and startTime + duration   *)
(* equal to the timeline's metadata.duration, so that it does not extend   *)
(* past the end of the timeline, with easing easeInOut for the cinematic   *)
(* style and linear otherwise (times in tenths of a second).               *)
C25_MovementSpansTimeline ==
  dir.on =>
    \A i \in 1..Len(dir.results), direction \in {analyzePrompt(dir.prompt)} :
      LET timeline == dir.results[i].timeline
          movements == timeline.camera.movements
      IN  IF direction.movement = "static"
          THEN movements = <<>>
          ELSE /\ Len(movements) = 1
               /\ movements[1].type = direction.movement
               /\ movements[1].startTime = 5
               /\ movements[1].startTime + movements[1].duration
                    = timeline.metadata.duration
               /\ movements[1].startTime + movements[1].duration
                    <= timeline.metadata.duration
               /\ movements[1].easing =
                    IF direction.style = "cinematic" THEN "easeInOut" ELSE "linear"

(* C26: whatever the analysis service answers (JSON with any field         *)
(* spellings and value shapes, free text, nothing, or an error), mapper on *)
(* an existing image returns a schema, and validateSchema finds that       *)
(* schema valid, so that the schema gate of generateVideo lets it pass.    *)
C26_MapperResultPassesGate ==
  (mpr.on /\ mpr.called /\ mpr.last.exists) =>
    /\ mpr.last.result.kind = "returned"
    /\ validateSchema(shapeOf(mpr.last.result.schema)).isValid

\* the field of the part of the schema, undefined when the part or the field is missing
SchemaField(sch, part, field) ==
  IF part \in DOMAIN sch THEN Field(sch[part], field) ELSE Undef

\* the value is a sequence with no element
EmptySequence(x) == x.t = "array" /\ Len(x.v) = 0

(* C27: validateSchema returns isValid = false for a schema whose          *)
(* scene.colors is an empty sequence, for a schema whose                   *)
(* visual_analysis.dominant_colors is an empty sequence, and for a schema  *)
(* that lacks elements.primary, scene.emotion or composition.focus.        *)
C27_RejectsEmptyAndMissing ==
  (/\ mpr.on /\ "validated" \in DOMAIN mpr /\ mpr.validated
   /\ \/ EmptySequence(SchemaField(mpr.schema, "scene", "colors"))
      \/ EmptySequence(SchemaField(mpr.schema, "visual_analysis", "dominant_colors"))
      \/ SchemaField(mpr.schema, "elements", "primary") = Undef
      \/ SchemaField(mpr.schema, "scene", "emotion") = Undef
      \/ SchemaField(mpr.schema, "composition", "focus") = Undef)
    => ~mpr.validation.isValid

\* the query time is inside the effect's window
InWindow(effect, t) ==
  t >= effect.startTime /\ t <= effect.startTime + effect.duration

\* (t - startTime) / duration clamped to [0, 1], in thousandths
WindowProgress(effect, t) ==
  LET progress == ((t - effect.startTime) * 1000) \div effect.duration
  IN  IF progress < 0 THEN 0 ELSE IF progress > 1000 THEN 1000 ELSE progress

\* the opacity of a fade at query time t
FadeOpacity(effect, t) ==
  IF effect.parameters.type = "in" THEN WindowProgress(effect, t)
  ELSE 1000 - WindowProgress(effect, t)

(* C28: for every effect of a timeline, on a layer or global, and every    *)
(* query time t, the composition rendered for t has nothing for the effect *)
(* when t is outside [startTime, startTime + duration]; for a fade inside  *)
(* its window it has an element whose opacity is (t - startTime)/duration  *)
(* clamped to [0, 1] for type in and one minus that for type out, which is *)
(* monotone in t.                                                          *)
C28_EffectWindowAndFade ==
  (cod.on /\ "effect" \in DOMAIN cod) =>
    /\ cod.rendered =>
         /\ ~InWindow(cod.effect, cod.frameTime) => cod.output = Nothing
         /\ (InWindow(cod.effect, cod.frameTime) /\ cod.effect.type = "fade") =>
              /\ cod.output.rendered
              /\ cod.output.style.opacity = FadeOpacity(cod.effect, cod.frameTime)
    /\ cod.effect.type = "fade" =>
         \A t1, t2 \in QueryTimes :
           (t1 <= t2 /\ InWindow(cod.effect, t1) /\ InWindow(cod.effect, t2)) =>
             IF cod.effect.parameters.type = "in"
             THEN FadeOpacity(cod.effect, t1) <= FadeOpacity(cod.effect, t2)
             ELSE FadeOpacity(cod.effect, t1) >= FadeOpacity(cod.effect, t2)

====
